---- MODULE Spec2Model ----
(***************************************************************************)
(* A model of libwsong's IPC cores:                                        *)
(*   - the shared-memory ring buffer (RingBuffer::produce / consume /      *)
(*     create_ring_buffer), one step per access to the shared header;      *)
(*   - the binary-tree buddy allocator (BuddySystem).                      *)
(* Each component has its own specification (SpecRB, SpecCreate, SpecBT);  *)
(* the variables of the other components stay at their initial values.     *)
(***************************************************************************)
EXTENDS Integers, Sequences, FiniteSets, TLC

VARIABLES
    \* ---- ring buffer: attribute block and state block of the header
    attr,            \* RingBufferAttribute of the attached ring
    head,            \* std::atomic<uint32_t> head
    tail,            \* std::atomic<uint32_t> tail
    producer_lock,   \* std::atomic<bool> producer_lock_cl.lock
    consumer_lock,   \* std::atomic<bool> consumer_lock_cl.lock
    slots,           \* the capacity * entry_size bytes after the header
    now,             \* std::chrono::steady_clock::now()
    th,              \* per thread, the locals of its produce()/consume() call:
                     \*   pc        position in the call
                     \*   expected  the `bool expected` of compare_exchange_weak
                     \*   end       the local `end`, the deadline
                     \*   succ      the local `succ`
                     \*   size, timeout   the arguments `size`, `timeout_ns`
                     \*   buf       the caller's buffer
                     \*   wrote     the call has written head, tail or a slot
    nproduce,        \* number of produce calls started
    nconsume,        \* number of consume calls started
    produced,        \* payloads of the successful produces, in tail order
    consumed,        \* payloads returned by the successful consumes, in head order
    \* ---- create_ring_buffer
    segments,        \* keys of the System-V segments that exist
    cr_attr,         \* the attribute of the last create_ring_buffer call
    cr_result,       \* how the last create_ring_buffer call ended
    cr_header,       \* the RingBufferHeader of the segment the last call created
    \* ---- buddy tree
    buddies,         \* buddies_ptr[1 .. 2^total_level - 1]
    live,            \* allocations handed out and not yet released
    bt_result,       \* how the last buddy-tree call ended
    misused,         \* free() was called with an offset at which no allocation
                     \* handed out and not yet released starts
    \* ---- VAW: the buddy tree of a group, in a file shared by the processes
    va_tree,         \* the cells of the mmap'ed (MAP_SHARED) buddies file
    va_mutex,        \* the processes whose VAW::buddies_mutex is locked
    va_flock,        \* per process, the flock its open file description holds
    va_th,           \* per calling thread, its position in VAW::allocate / VAW::free
    va_live,         \* the ranges VAW::allocate returned and no one gave back
    \* ---- ShmPool: groups on the ramdisk, the processes' singletons, the pools
    fs_dir,          \* the groups whose metadata directory exists
    fs_file,         \* per group, the buddies file: its size and its cells
    sp_proc,         \* per process: ShmPoolImpl::group, VAW::singleton, position
    sp_pools,        \* the ShmPoolImpl objects alive
    sp_result,       \* the outcome of the last call
    \* ---- timing: the Timestamp singleton of a process
    tm_log,          \* _log, one entry per position of the ring
    tm_position,     \* position, the number of entries logged since the last clear
    tm_pc,           \* per thread, its position in Timestamp::instance_save
    tm_file,         \* the entries the last ws_timing_save wrote, in file order
    tm_since,        \* the entries logged since the last clear, in lock order
    tm_clock,        \* CLOCK_REALTIME, advanced by every punch
    tm_cleared_at    \* the clock at the last clear

rbvars == <<attr, head, tail, producer_lock, consumer_lock, slots, now, th,
            nproduce, nconsume, produced, consumed>>
crvars == <<segments, cr_attr, cr_result, cr_header>>
btvars == <<buddies, live, bt_result, misused>>
vavars == <<va_tree, va_mutex, va_flock, va_th, va_live>>
spvars == <<fs_dir, fs_file, sp_proc, sp_pools, sp_result>>
tmvars == <<tm_log, tm_position, tm_pc, tm_file, tm_since, tm_clock, tm_cleared_at>>
vars == <<rbvars, crvars, btvars, vavars, spvars, tmvars>>

----------------------------------------------------------------------------
\* Bounds of the model
MaxCalls == 4        \* produce and consume calls per behaviour, one thread per side
MaxContendedCalls == 2   \* the same, on a ring with two threads on a side
MaxTime == 1         \* clock ticks per behaviour
MaxTimeout == 1      \* largest timeout_ns a caller passes

\* head and tail are uint32_t. TLC's integers stop at 2^31 - 1, so a uint32_t is
\* the record [hi, lo] of its two 16-bit halves: its value is hi * 2^16 + lo.
W16 == 65536
U32(hi, lo) == [hi |-> hi, lo |-> lo]

Min(a, b) == IF a < b THEN a ELSE b
Max(a, b) == IF a > b THEN a ELSE b

----------------------------------------------------------------------------
\* Ring buffer

Producers == {"p1", "p2"}
Consumers == {"c1", "c2"}
Threads == Producers \cup Consumers

Ring(cap, esz, mp, mc) ==
    [capacity |-> cap, entry_size |-> esz, multiple_producer |-> mp, multiple_consumer |-> mc]

\* The rings the model attaches to, each with the cursor value it starts from:
\* a ring is empty and idle when it is fresh (head = tail = 0) and again after
\* any number of entries went through it (head = tail = k mod 2^32).
\* capacity and entry_size are powers of two: create_ring_buffer accepts nothing else.
RingStarts ==
    { <<Ring(2, 2, FALSE, FALSE), U32(0, 0)>>,
      <<Ring(4, 1, FALSE, FALSE), U32(W16 - 1, W16 - 2)>>,
      <<Ring(2, 1, TRUE, FALSE), U32(0, 0)>>,
      <<Ring(2, 1, FALSE, TRUE), U32(0, 0)>> }

\* A side has one participant unless the ring was created for several.
Active(t) ==
    \/ t \in {"p1", "c1"}
    \/ t = "p2" /\ attr.multiple_producer
    \/ t = "c2" /\ attr.multiple_consumer

\* the number of calls a behaviour makes
CallBudget ==
    IF attr.multiple_producer \/ attr.multiple_consumer THEN MaxContendedCalls ELSE MaxCalls

RB_ENTRY_SIZE == attr.entry_size
RB_CAPACITY == attr.capacity
RB_MULTIPLE_PRODUCER == attr.multiple_producer
RB_MULTIPLE_CONSUMER == attr.multiple_consumer

\* unsigned 32-bit arithmetic: a - b and a + 1 modulo 2^32, and a % m for m <= 2^15
Sub32(a, b) ==
    LET borrow == IF a.lo < b.lo THEN 1 ELSE 0
    IN  U32((a.hi - b.hi - borrow + W16) % W16, (a.lo - b.lo + W16) % W16)
Inc32_SkipZero(a) ==
    IF a.lo + 1 < W16 THEN U32(a.hi, a.lo + 1)
    ELSE IF a.hi + 1 < W16 THEN U32(a.hi + 1, 0) ELSE U32(0, 1)
Inc32(a) ==
    IF a.lo + 1 < W16 THEN U32(a.hi, a.lo + 1) ELSE U32((a.hi + 1) % W16, 0)
Mod32(a, m) == ((a.hi % m) * (W16 % m) + a.lo) % m

RB_BUFFER(idx) == Mod32(idx, RB_CAPACITY)
RB_HEAD_BUFFER_Next == RB_BUFFER(Inc32(head))
RB_HEAD_BUFFER == RB_BUFFER(head)
RB_TAIL_BUFFER == RB_BUFFER(tail)
RB_SIZE == Mod32(Sub32(tail, head), RB_CAPACITY)
RB_IS_FULL_Never == FALSE
RB_IS_FULL == RB_SIZE = RB_CAPACITY - 1
RB_IS_EMPTY == RB_SIZE = 0

\* if (size > RB_ENTRY_SIZE || size == 0) throw ws_invalid_argument_exp
InvalidSize_ZeroAccepted(size) == size > RB_ENTRY_SIZE
InvalidSize(size) == size > RB_ENTRY_SIZE \/ size = 0

\* std::memcpy(dst, src, size) on buffers of entry_size bytes
memcpy(dst, src, size) ==
    [i \in 1..RB_ENTRY_SIZE |-> IF i <= size THEN src[i] ELSE dst[i]]

\* the loop condition of `do { ... } while (end < steady_clock::now())`
LoopAgain(end, clock) == end < clock

\* `if (RB_MULTIPLE_PRODUCER)` / `if (RB_MULTIPLE_CONSUMER)` in front of the unlock
\* of a side; ok is the local succ at that point.
UnlockGuard_OnlyOnSuccess(multiple, ok) == multiple /\ ok
UnlockGuard(multiple, ok) == multiple

Bytes(v) == [i \in 1..RB_ENTRY_SIZE |-> v]

\* a thread that is in no call
Idle == [pc |-> "idle", expected |-> FALSE, end |-> 0, succ |-> FALSE,
         size |-> 0, timeout |-> 0, buf |-> <<>>, wrote |-> FALSE]

InitRB ==
    /\ \E s \in RingStarts : attr = s[1] /\ head = s[2] /\ tail = s[2]
    /\ producer_lock = FALSE
    /\ consumer_lock = FALSE
    /\ slots = [i \in 0..(attr.capacity - 1) |-> [j \in 1..attr.entry_size |-> 0]]
    /\ now = 0
    /\ th = [t \in Threads |-> Idle]
    /\ nproduce = 0
    /\ nconsume = 0
    /\ produced = <<>>
    /\ consumed = <<>>
    /\ segments = {} /\ cr_attr = [op |-> "none"] /\ cr_result = "none"
    /\ cr_header = [created |-> FALSE]
    /\ buddies = <<>> /\ live = {} /\ bt_result = [op |-> "none"] /\ misused = FALSE
    /\ va_tree = <<>> /\ va_mutex = {} /\ va_flock = {} /\ va_th = <<>> /\ va_live = {}
    /\ fs_dir = {} /\ fs_file = <<>> /\ sp_proc = <<>> /\ sp_pools = {}
    /\ sp_result = [op |-> "none"]
    /\ tm_log = <<>> /\ tm_position = 0 /\ tm_pc = <<>> /\ tm_file = <<>>
    /\ tm_since = <<>> /\ tm_clock = 0 /\ tm_cleared_at = 0


----------------------------------------------------------------------------
\* RingBuffer::produce and RingBuffer::consume, one action per access to the
\* shared header or to the clock:
\*   idle -> invalid
\*   idle -> (lock) -> full|empty -> copy -> inc -> (unlock) -> end
\*                     full|empty -> cond -> full|empty, or -> (unlock) -> end

\* const auto end = steady_clock::now() + nanoseconds(timeout_ns); bool succ = false;
\* (these lines touch no shared state, so they are part of the step before them)
EnterLoop(l, first) ==
    [l EXCEPT !.pc = first, !.end = now + l.timeout, !.timeout = 0,
              !.succ = FALSE, !.expected = FALSE]

\* on the way out of the loop: to the unlock if the side is locked, else to the end
LeaveLoop(l, multiple) ==
    IF UnlockGuard(multiple, l.succ)
    THEN [l EXCEPT !.pc = "unlock", !.expected = TRUE]
    ELSE [l EXCEPT !.pc = "end"]

\* The call: the check of `size`, then on to the lock or straight to the loop.
ProduceCall(p, size, timeout) ==
    /\ p \in Producers /\ Active(p)
    /\ th[p].pc = "idle"
    /\ nproduce + nconsume < CallBudget
    /\ nproduce' = nproduce + 1
    /\ LET l == [Idle EXCEPT !.size = size, !.timeout = timeout, !.buf = Bytes(nproduce + 1)]
       IN  th' = [th EXCEPT ![p] =
                    IF InvalidSize(size) THEN [l EXCEPT !.pc = "invalid"]
                    ELSE IF RB_MULTIPLE_PRODUCER THEN [l EXCEPT !.pc = "lock"]
                    ELSE EnterLoop(l, "full")]
    /\ UNCHANGED <<crvars, btvars, vavars, spvars, tmvars>>
    /\ UNCHANGED <<attr, head, tail, producer_lock, consumer_lock, slots, now,
                   nconsume, produced, consumed>>

\* One iteration of `while(!lock.compare_exchange_weak(expected,true));`
\* A failed exchange loads the current value of the lock into `expected`.
ProduceLock(p) ==
    /\ p \in Producers /\ th[p].pc = "lock"
    /\ IF producer_lock = th[p].expected
         THEN /\ producer_lock' = TRUE
              /\ th' = [th EXCEPT ![p] = EnterLoop(@, "full")]
         ELSE /\ th' = [th EXCEPT ![p].expected = producer_lock]
              /\ UNCHANGED producer_lock
    /\ UNCHANGED <<crvars, btvars, vavars, spvars, tmvars>>
    /\ UNCHANGED <<attr, head, tail, consumer_lock, slots, now,
                   nproduce, nconsume, produced, consumed>>

\* if (RB_IS_FULL) continue; else ...
ProduceFull(p) ==
    /\ p \in Producers /\ th[p].pc = "full"
    /\ th' = [th EXCEPT ![p].pc = IF RB_IS_FULL THEN "cond" ELSE "copy"]
    /\ UNCHANGED <<crvars, btvars, vavars, spvars, tmvars>>
    /\ UNCHANGED <<attr, head, tail, producer_lock, consumer_lock, slots, now,
                   nproduce, nconsume, produced, consumed>>

\* std::memcpy(RB_TAIL_BUFFER,buffer,size);
ProduceCopy(p) ==
    /\ p \in Producers /\ th[p].pc = "copy"
    /\ slots' = [slots EXCEPT ![RB_TAIL_BUFFER] = memcpy(@, th[p].buf, th[p].size)]
    /\ th' = [th EXCEPT ![p].pc = "inc", ![p].wrote = TRUE]
    /\ UNCHANGED <<crvars, btvars, vavars, spvars, tmvars>>
    /\ UNCHANGED <<attr, head, tail, producer_lock, consumer_lock, now,
                   nproduce, nconsume, produced, consumed>>

\* RB_TAIL ++; succ = true; break;
ProduceInc(p) ==
    /\ p \in Producers /\ th[p].pc = "inc"
    /\ tail' = Inc32(tail)
    /\ produced' = Append(produced, SubSeq(th[p].buf, 1, th[p].size))
    /\ th' = [th EXCEPT ![p] =
                LeaveLoop([@ EXCEPT !.succ = TRUE, !.wrote = TRUE], RB_MULTIPLE_PRODUCER)]
    /\ UNCHANGED <<crvars, btvars, vavars, spvars, tmvars>>
    /\ UNCHANGED <<attr, head, producer_lock, consumer_lock, slots, now,
                   nproduce, nconsume, consumed>>

\* } while (end < std::chrono::steady_clock::now());
ProduceCond(p) ==
    /\ p \in Producers /\ th[p].pc = "cond"
    /\ th' = [th EXCEPT ![p] =
                IF LoopAgain(th[p].end, now) THEN [@ EXCEPT !.pc = "full"]
                ELSE LeaveLoop(@, RB_MULTIPLE_PRODUCER)]
    /\ UNCHANGED <<crvars, btvars, vavars, spvars, tmvars>>
    /\ UNCHANGED <<attr, head, tail, producer_lock, consumer_lock, slots, now,
                   nproduce, nconsume, produced, consumed>>

\* One iteration of `while(!lock.compare_exchange_weak(expected,false));`
ProduceUnlock(p) ==
    /\ p \in Producers /\ th[p].pc = "unlock"
    /\ IF producer_lock = th[p].expected
         THEN /\ producer_lock' = FALSE
              /\ th' = [th EXCEPT ![p].pc = "end", ![p].expected = FALSE]
         ELSE /\ th' = [th EXCEPT ![p].expected = producer_lock]
              /\ UNCHANGED producer_lock
    /\ UNCHANGED <<crvars, btvars, vavars, spvars, tmvars>>
    /\ UNCHANGED <<attr, head, tail, consumer_lock, slots, now,
                   nproduce, nconsume, produced, consumed>>

\* The call is over: at "invalid" ws_invalid_argument_exp reaches the caller; at
\* "end" ws_timeout_exp does if (!succ), and otherwise the call returns.
ProduceEnd(p) ==
    /\ p \in Producers /\ th[p].pc \in {"end", "invalid"}
    /\ th' = [th EXCEPT ![p] = Idle]
    /\ UNCHANGED <<crvars, btvars, vavars, spvars, tmvars>>
    /\ UNCHANGED <<attr, head, tail, producer_lock, consumer_lock, slots, now,
                   nproduce, nconsume, produced, consumed>>

----------------------------------------------------------------------------
\* The call: the check of `size`, then on to the lock or straight to the loop.
ConsumeCall(c, size, timeout) ==
    /\ c \in Consumers /\ Active(c)
    /\ th[c].pc = "idle"
    /\ nproduce + nconsume < CallBudget
    /\ nconsume' = nconsume + 1
    /\ LET l == [Idle EXCEPT !.size = size, !.timeout = timeout, !.buf = Bytes(0)]
       IN  th' = [th EXCEPT ![c] =
                    IF InvalidSize(size) THEN [l EXCEPT !.pc = "invalid"]
                    ELSE IF RB_MULTIPLE_CONSUMER THEN [l EXCEPT !.pc = "lock"]
                    ELSE EnterLoop(l, "empty")]
    /\ UNCHANGED <<crvars, btvars, vavars, spvars, tmvars>>
    /\ UNCHANGED <<attr, head, tail, producer_lock, consumer_lock, slots, now,
                   nproduce, produced, consumed>>

\* One iteration of `while(!lock.compare_exchange_weak(expected,true));`
\* A failed exchange loads the current value of the lock into `expected`.
ConsumeLock(c) ==
    /\ c \in Consumers /\ th[c].pc = "lock"
    /\ IF consumer_lock = th[c].expected
         THEN /\ consumer_lock' = TRUE
              /\ th' = [th EXCEPT ![c] = EnterLoop(@, "empty")]
         ELSE /\ th' = [th EXCEPT ![c].expected = consumer_lock]
              /\ UNCHANGED consumer_lock
    /\ UNCHANGED <<crvars, btvars, vavars, spvars, tmvars>>
    /\ UNCHANGED <<attr, head, tail, producer_lock, slots, now,
                   nproduce, nconsume, produced, consumed>>

\* if (RB_IS_EMPTY) continue; else ...
ConsumeEmpty(c) ==
    /\ c \in Consumers /\ th[c].pc = "empty"
    /\ th' = [th EXCEPT ![c].pc = IF RB_IS_EMPTY THEN "cond" ELSE "copy"]
    /\ UNCHANGED <<crvars, btvars, vavars, spvars, tmvars>>
    /\ UNCHANGED <<attr, head, tail, producer_lock, consumer_lock, slots, now,
                   nproduce, nconsume, produced, consumed>>

\* std::memcpy(buffer,RB_HEAD_BUFFER,size);
ConsumeCopy(c) ==
    /\ c \in Consumers /\ th[c].pc = "copy"
    /\ th' = [th EXCEPT ![c].pc = "inc",
                        ![c].buf = memcpy(@, slots[RB_HEAD_BUFFER], th[c].size)]
    /\ UNCHANGED <<crvars, btvars, vavars, spvars, tmvars>>
    /\ UNCHANGED <<attr, head, tail, producer_lock, consumer_lock, slots, now,
                   nproduce, nconsume, produced, consumed>>

\* RB_HEAD ++; succ = true; break;
ConsumeInc(c) ==
    /\ c \in Consumers /\ th[c].pc = "inc"
    /\ head' = Inc32(head)
    /\ consumed' = Append(consumed, SubSeq(th[c].buf, 1, th[c].size))
    /\ th' = [th EXCEPT ![c] =
                LeaveLoop([@ EXCEPT !.succ = TRUE, !.wrote = TRUE], RB_MULTIPLE_CONSUMER)]
    /\ UNCHANGED <<crvars, btvars, vavars, spvars, tmvars>>
    /\ UNCHANGED <<attr, tail, producer_lock, consumer_lock, slots, now,
                   nproduce, nconsume, produced>>

\* } while (end < std::chrono::steady_clock::now());
ConsumeCond(c) ==
    /\ c \in Consumers /\ th[c].pc = "cond"
    /\ th' = [th EXCEPT ![c] =
                IF LoopAgain(th[c].end, now) THEN [@ EXCEPT !.pc = "empty"]
                ELSE LeaveLoop(@, RB_MULTIPLE_CONSUMER)]
    /\ UNCHANGED <<crvars, btvars, vavars, spvars, tmvars>>
    /\ UNCHANGED <<attr, head, tail, producer_lock, consumer_lock, slots, now,
                   nproduce, nconsume, produced, consumed>>

\* One iteration of `while(!lock.compare_exchange_weak(expected,false));`
ConsumeUnlock(c) ==
    /\ c \in Consumers /\ th[c].pc = "unlock"
    /\ IF consumer_lock = th[c].expected
         THEN /\ consumer_lock' = FALSE
              /\ th' = [th EXCEPT ![c].pc = "end", ![c].expected = FALSE]
         ELSE /\ th' = [th EXCEPT ![c].expected = consumer_lock]
              /\ UNCHANGED consumer_lock
    /\ UNCHANGED <<crvars, btvars, vavars, spvars, tmvars>>
    /\ UNCHANGED <<attr, head, tail, producer_lock, slots, now,
                   nproduce, nconsume, produced, consumed>>

\* The call is over: at "invalid" ws_invalid_argument_exp reaches the caller; at
\* "end" ws_timeout_exp does if (!succ), and otherwise the call returns.
ConsumeEnd(c) ==
    /\ c \in Consumers /\ th[c].pc \in {"end", "invalid"}
    /\ th' = [th EXCEPT ![c] = Idle]
    /\ UNCHANGED <<crvars, btvars, vavars, spvars, tmvars>>
    /\ UNCHANGED <<attr, head, tail, producer_lock, consumer_lock, slots, now,
                   nproduce, nconsume, produced, consumed>>

\* The steady clock advances. Only a call inside its loop reads the clock again,
\* so time passes only while there is one.
Tick ==
    /\ now < MaxTime
    /\ \E t \in Threads : th[t].pc \in {"full", "empty", "cond"}
    /\ now' = now + 1
    /\ UNCHANGED <<crvars, btvars, vavars, spvars, tmvars>>
    /\ UNCHANGED <<attr, head, tail, producer_lock, consumer_lock, slots, th,
                   nproduce, nconsume, produced, consumed>>

\* the sizes and timeouts a caller passes
SizeArgs == 0..(RB_ENTRY_SIZE + 1)
TimeoutArgs == 0..MaxTimeout

NextRB ==
    \/ \E p \in Producers, size \in SizeArgs, timeout \in TimeoutArgs :
            ProduceCall(p, size, timeout)
    \/ \E p \in Producers : ProduceLock(p)
    \/ \E p \in Producers : ProduceFull(p)
    \/ \E p \in Producers : ProduceCopy(p)
    \/ \E p \in Producers : ProduceInc(p)
    \/ \E p \in Producers : ProduceCond(p)
    \/ \E p \in Producers : ProduceUnlock(p)
    \/ \E p \in Producers : ProduceEnd(p)
    \/ \E c \in Consumers, size \in SizeArgs, timeout \in TimeoutArgs :
            ConsumeCall(c, size, timeout)
    \/ \E c \in Consumers : ConsumeLock(c)
    \/ \E c \in Consumers : ConsumeEmpty(c)
    \/ \E c \in Consumers : ConsumeCopy(c)
    \/ \E c \in Consumers : ConsumeInc(c)
    \/ \E c \in Consumers : ConsumeCond(c)
    \/ \E c \in Consumers : ConsumeUnlock(c)
    \/ \E c \in Consumers : ConsumeEnd(c)
    \/ Tick

SpecRB == InitRB /\ [][NextRB]_vars

----------------------------------------------------------------------------
\* Properties of the ring buffer

IsSPSC == ~attr.multiple_producer /\ ~attr.multiple_consumer
InsideGate == {"full", "empty", "copy", "inc", "cond", "unlock"}
SideMultiple(t) == IF t \in Producers THEN attr.multiple_producer ELSE attr.multiple_consumer
TimedOut(l) == l.pc = "end" /\ ~l.succ

\* C1: on a ring with multiple_producer = multiple_consumer = false, the i-th
\* successful consume returns the payload of the i-th successful produce: nothing
\* is consumed that was not produced, and the bytes of the i-th consumed entry are
\* the bytes of the i-th produced entry (as many of them as both calls asked for).
C1_SpscFifo ==
    IsSPSC =>
        /\ Len(consumed) <= Len(produced)
        /\ \A i \in 1..Len(consumed) :
              \A j \in 1..Min(Len(consumed[i]), Len(produced[i])) :
                  consumed[i][j] = produced[i][j]
\* two entries went through an SPSC ring, the second while a third was produced
C1_Witness ==
    /\ IsSPSC /\ Len(consumed) = 2 /\ consumed[1] # consumed[2]
    /\ Len(produced) = 2 /\ Len(produced[2]) = Len(consumed[2])

\* C2: in every reachable state the number of produced-but-not-consumed entries,
\* (tail - head) mod 2^32, lies in [0, capacity - 1]; and with no consume call at
\* all, no more than capacity - 1 produce calls succeed.
C2_CapacityLaw ==
    /\ Sub32(tail, head).hi = 0
    /\ Sub32(tail, head).lo <= RB_CAPACITY - 1
    /\ (nconsume = 0 => Len(produced) <= RB_CAPACITY - 1)

\* C3: at most one producer is between acquiring and releasing producer_lock on a
\* multiple_producer ring, and at most one consumer between acquiring and releasing
\* consumer_lock on a multiple_consumer ring.
C3_MutualExclusion ==
    /\ attr.multiple_producer =>
            Cardinality({p \in Producers : th[p].pc \in InsideGate}) <= 1
    /\ attr.multiple_consumer =>
            Cardinality({c \in Consumers : th[c].pc \in InsideGate}) <= 1

\* C4: on a ring with several producers or consumers every produced entry is
\* delivered exactly once: what was consumed was produced, no entry is consumed
\* twice, and when no call is running the ring holds exactly the produced entries
\* that were not consumed yet.
C4_ExactlyOnce ==
    ~IsSPSC =>
        /\ Len(consumed) <= Len(produced)
        /\ \A i \in 1..Len(consumed) : \E k \in 1..Len(produced) : consumed[i] = produced[k]
        /\ \A i, j \in 1..Len(consumed) : i # j => consumed[i] # consumed[j]
        /\ (\A t \in Threads : th[t].pc = "idle") =>
              /\ RB_SIZE = Len(produced) - Len(consumed)
              /\ \A k \in 1..Len(produced) :
                    (\A i \in 1..Len(consumed) : consumed[i] # produced[k]) =>
                        \E d \in 0..(RB_SIZE - 1) :
                            slots[(RB_HEAD_BUFFER + d) % RB_CAPACITY] = produced[k]

\* C5: once the deadline is reached, a poll that found the ring full (empty) is the
\* last one of the call: the call leaves its loop instead of polling again.
C5_BoundedPolling ==
    [][\A t \in Threads :
          (th[t].pc = "cond" /\ now >= th[t].end /\ th'[t] # th[t])
              => th'[t].pc \notin {"full", "empty"}]_vars

\* C6: Timeout is raised only when the deadline is reached: a call that ends without
\* success ends at a time now >= end.
C6_NoPrematureTimeout ==
    \A t \in Threads : TimedOut(th[t]) => now >= th[t].end

\* C7: a call that ends with Timeout has written neither head, tail nor a slot, and
\* if its side is locked it comes from the unlock, whose last step stored false in
\* the side's lock.
C7_TimeoutLeavesRingConsistent ==
    [][\A t \in Threads :
          (th[t].pc # "end" /\ TimedOut(th'[t])) =>
              /\ ~th'[t].wrote
              /\ SideMultiple(t) =>
                    /\ th[t].pc = "unlock"
                    /\ t \in Producers => producer_lock' = FALSE
                    /\ t \in Consumers => consumer_lock' = FALSE]_vars
\* a call on a locked side is about to raise Timeout while the other thread of the
\* side is inside a call
C7_Witness ==
    \E t \in Threads, u \in Threads :
        /\ t # u /\ (t \in Producers <=> u \in Producers)
        /\ SideMultiple(t) /\ TimedOut(th[t]) /\ th[u].pc \notin {"idle", "invalid"}

\* C8: a call with size = 0 or size > entry_size goes straight to InvalidArgument:
\* its first step takes no lock and changes nothing of the ring, and so does the
\* step that hands the error to the caller.
C8_InvalidSizeRejected ==
    [][\A t \in Threads :
          /\ (th[t].pc = "idle" /\ th'[t].pc # "idle"
                /\ (th'[t].size = 0 \/ th'[t].size > RB_ENTRY_SIZE)) =>
                  /\ th'[t].pc = "invalid"
                  /\ UNCHANGED <<head, tail, producer_lock, consumer_lock, slots>>
          /\ (th[t].pc = "invalid" /\ th'[t] # th[t]) =>
                  /\ th'[t].pc = "idle"
                  /\ UNCHANGED <<head, tail, producer_lock, consumer_lock, slots>>]_vars
\* on a locked ring a produce with size > entry_size and a consume with size 0 are
\* both about to raise InvalidArgument
C8_Witness ==
    /\ attr.multiple_producer \/ attr.multiple_consumer
    /\ \E p \in Producers : th[p].pc = "invalid" /\ th[p].size > RB_ENTRY_SIZE
    /\ \E c \in Consumers : th[c].pc = "invalid" /\ th[c].size = 0

----------------------------------------------------------------------------
\* RingBuffer::create_ring_buffer and RingBuffer::delete_ring_buffer

MaxDim == 4          \* capacity and entry_size arguments range over 0..MaxDim

\* a & b on naturals
RECURSIVE BitAnd(_, _)
BitAnd(a, b) ==
    IF a = 0 \/ b = 0 THEN 0
    ELSE (a % 2) * (b % 2) + 2 * BitAnd(a \div 2, b \div 2)

\* x & (x - 1) on an unsigned x: for x = 0 the subtraction wraps to all ones and the
\* conjunction with 0 is 0
AndWithPredecessor(x) == IF x = 0 THEN 0 ELSE BitAnd(x, x - 1)

\* if ((x & (x - 1)) || (x == 0)) throw ws_invalid_argument_exp, for entry_size and capacity
InvalidDim_ZeroAccepted(x) == AndWithPredecessor(x) # 0
InvalidDim(x) == AndWithPredecessor(x) # 0 \/ x = 0

\* the cases of switch (attribute.page_size): 1<<12, 1<<21, 1<<30
PAGE_4K == 4096
PAGE_2M == 2097152
PAGE_1G == 1073741824
InvalidPageSize(ps) == ps \notin {PAGE_4K, PAGE_2M, PAGE_1G}

Keys == {1, 2}
DimArgs == (0..MaxDim) \cup {65535}
PageSizeArgs == {0, PAGE_4K, 8192, PAGE_2M, PAGE_1G}

InitCreate ==
    /\ segments = {}
    /\ cr_attr = [op |-> "none"]
    /\ cr_result = "none"
    /\ cr_header = [created |-> FALSE]
    /\ attr = Ring(2, 2, FALSE, FALSE)
    /\ head = U32(0, 0) /\ tail = U32(0, 0)
    /\ producer_lock = FALSE /\ consumer_lock = FALSE
    /\ slots = [i \in 0..1 |-> <<0, 0>>]
    /\ now = 0
    /\ th = [t \in Threads |-> Idle]
    /\ nproduce = 0 /\ nconsume = 0
    /\ produced = <<>> /\ consumed = <<>>
    /\ buddies = <<>> /\ live = {} /\ bt_result = [op |-> "none"] /\ misused = FALSE
    /\ va_tree = <<>> /\ va_mutex = {} /\ va_flock = {} /\ va_th = <<>> /\ va_live = {}
    /\ fs_dir = {} /\ fs_file = <<>> /\ sp_proc = <<>> /\ sp_pools = {}
    /\ sp_result = [op |-> "none"]
    /\ tm_log = <<>> /\ tm_position = 0 /\ tm_pc = <<>> /\ tm_file = <<>>
    /\ tm_since = <<>> /\ tm_clock = 0 /\ tm_cleared_at = 0

\* the flags of the attribute: <<multiple_producer, multiple_consumer>>
FlagArgs == {<<TRUE, FALSE>>, <<FALSE, TRUE>>}

\* no segment was created by the call
NoHeader == [created |-> FALSE]
\* the header of a segment shmget has just created: the kernel hands out the
\* memory of a new segment filled with zero bytes
ZeroHeader_Uncleared ==
    [created |-> TRUE,
     attribute |-> Ring(0, 0, FALSE, FALSE),
     head |-> U32(0, 1), tail |-> U32(0, 0),
     producer_lock |-> TRUE, consumer_lock |-> FALSE]
ZeroHeader ==
    [created |-> TRUE,
     attribute |-> Ring(0, 0, FALSE, FALSE),
     head |-> U32(0, 0), tail |-> U32(0, 0),
     producer_lock |-> FALSE, consumer_lock |-> FALSE]
\* rbh->info.attribute = attribute: the attribute block is written, the state
\* block is not touched
WriteAttribute(h, a) == [h EXCEPT !.attribute = a]

\* create_ring_buffer(attribute): the two validations, the page_size switch, then
\* shmget(key, size, IPC_CREAT | IPC_EXCL), which fails when the key exists or the
\* host cannot provide the memory (os = "shmget fails"); SHM_LOCK, IPC_STAT, shmat
\* and shmdt follow and may fail as well (os = "later call fails"), the segment
\* then stays, with the attribute written when it was shmdt that failed.
create_ring_buffer(key, page_size, capacity, entry_size, flags, os) ==
    /\ cr_attr' = [op |-> "create", key |-> key, page_size |-> page_size,
                   capacity |-> capacity, entry_size |-> entry_size,
                   multiple_producer |-> flags[1], multiple_consumer |-> flags[2]]
    /\ IF InvalidDim(entry_size) \/ InvalidDim(capacity) \/ InvalidPageSize(page_size)
         THEN /\ cr_result' = "InvalidArgument"
              /\ cr_header' = NoHeader
              /\ UNCHANGED segments
         ELSE IF key \in segments \/ os = "shmget fails"
         THEN /\ cr_result' = "System"
              /\ cr_header' = NoHeader
              /\ UNCHANGED segments
         ELSE /\ segments' = segments \cup {key}
              /\ cr_result' = IF os = "ok" THEN "ok" ELSE "System"
              /\ \E written \in BOOLEAN :
                   /\ os = "ok" => written
                   /\ cr_header' = IF written
                                   THEN WriteAttribute(ZeroHeader,
                                            Ring(capacity, entry_size, flags[1], flags[2]))
                                   ELSE ZeroHeader
    /\ UNCHANGED <<rbvars, btvars, vavars, spvars, tmvars>>

\* delete_ring_buffer(key): shmget(key,0,0), then shmctl(IPC_RMID)
delete_ring_buffer(key) ==
    /\ cr_attr' = [op |-> "delete", key |-> key]
    /\ cr_header' = NoHeader
    /\ IF key \in segments
         THEN /\ segments' = segments \ {key}
              /\ cr_result' = "ok"
         ELSE /\ cr_result' = "System"
              /\ UNCHANGED segments
    /\ UNCHANGED <<rbvars, btvars, vavars, spvars, tmvars>>

NextCreate ==
    \/ \E key \in Keys, ps \in PageSizeArgs, cap \in DimArgs, esz \in DimArgs,
          flags \in FlagArgs,
          os \in {"ok", "shmget fails", "later call fails"} :
            create_ring_buffer(key, ps, cap, esz, flags, os)
    \/ \E key \in Keys : delete_ring_buffer(key)

SpecCreate == InitCreate /\ [][NextCreate]_vars

IsPowerOfTwo(x) == \E k \in 0..30 : x = 2^k

\* C9: create_ring_buffer answers InvalidArgument to every attribute whose
\* entry_size or capacity is zero or no power of two, or whose page_size is not
\* 4 KiB, 2 MiB or 1 GiB, and that call creates no segment.
C9_CreateRejectsBadAttribute ==
    [][(/\ <<cr_attr', cr_result'>> # <<cr_attr, cr_result>>
        /\ cr_attr'.op = "create"
        /\ \/ ~IsPowerOfTwo(cr_attr'.entry_size)
           \/ ~IsPowerOfTwo(cr_attr'.capacity)
           \/ cr_attr'.page_size \notin {4096, 2097152, 1073741824})
       => (cr_result' = "InvalidArgument" /\ segments' = segments)]_vars
\* a create with capacity 0 was rejected while a segment exists, and one with sound
\* dimensions and a page size of 8 KiB was
C9_Witness ==
    /\ cr_attr.op = "create" /\ cr_result = "InvalidArgument" /\ segments # {}
    /\ \/ cr_attr.capacity = 0 /\ cr_attr.entry_size = 4 /\ cr_attr.page_size = 4096
       \/ cr_attr.capacity = 4 /\ cr_attr.entry_size = 2 /\ cr_attr.page_size = 8192

----------------------------------------------------------------------------
\* BuddySystem: the binary-tree buddy allocator, with the unit size of the unit
\* test (1 MiB) and a capacity of 2^(MaxLevel-1) units.

\* levels of the tree
MaxLevel == 3
unit_exp == 20
capacity_exp == unit_exp + MaxLevel - 1
capacity == 2^capacity_exp
unit_size == 2^unit_exp

BUDDY_STATE_IDLE == 0
BUDDY_STATE_SPLT_HALFWAY == -1
BUDDY_STATE_SPLT_FULL == -2
BUDDY_IS_FULL(s) == s > 0 \/ s = BUDDY_STATE_SPLT_FULL

\* A cell nothing has written yet. The constructors store BUDDY_STATE_IDLE in
\* buddies_ptr[1] only; the rest of the tree is what malloc or the loader handed
\* over. The first read of such a cell finds any of Garbage in it, and the cell
\* keeps that value.
UNINITIALIZED == -99
\* one value of each kind the code tells apart: full, halfway, idle, allocated
Garbage == {BUDDY_STATE_SPLT_FULL, BUDDY_STATE_SPLT_HALFWAY, BUDDY_STATE_IDLE, 1}

\* number of binary digits of x: 32 - __builtin_clz(x) for 0 < x < 2^32
RECURSIVE BitLength(_)
BitLength(x) == IF x = 0 THEN 0 ELSE 1 + BitLength(x \div 2)

\* __builtin_ctzl(x) of a power of two x
Log2(x) == BitLength(x) - 1

\* is_power_of_two(x): (x & (x-1)) == 0 && x != 0
is_power_of_two(x) == AndWithPredecessor(x) = 0 /\ x # 0

\* nearest_power_of_two<T>(x), as the binary logarithm of the value it returns
\* (the value itself is 2^55 and more for a 64-bit T). __builtin_clz takes an
\* unsigned int, whatever T is: lz = 32 - BitLength(x) for the x < 2^32 of this
\* model, and the result is 1 << (sizeof(T)*8 - lz).
nearest_power_of_two_exp(x, bits) ==
    IF is_power_of_two(x) THEN Log2(x) ELSE bits - (32 - BitLength(x))

\* total_level(__builtin_ctzl(capacity/unit_size) + 1)
total_level == Log2(capacity \div unit_size) + 1
Nodes == 1..(2^total_level - 1)

LEVEL_OF(nid) == BitLength(nid)
NUM_SIBLINGS_OF(nid) == (2^nearest_power_of_two_exp(nid + 1, 32)) \div 2
SIBLING_INDEX_OF(nid) == nid - NUM_SIBLINGS_OF(nid)
OFFSET_OF(nid, cap) == (cap \div NUM_SIBLINGS_OF(nid)) * SIBLING_INDEX_OF(nid)
RANGE_OF(nid, cap) == cap \div NUM_SIBLINGS_OF(nid)

\* BuddySystem::internal_allocate_buddy(level, cur, size) on the tree t: the pair
\* of the node it returns (0: no space, -1: ws_invalid_argument_exp) and the tree
\* it leaves.
RECURSIVE internal_allocate_buddy(_, _, _, _)
internal_allocate_buddy(t, level, cur, size) ==
    LET cur_level == LEVEL_OF(cur)
        l == 2 * cur
        r == 2 * cur + 1
    IN  IF cur_level > level THEN <<-1, t>>
        ELSE IF cur_level = level
        THEN IF t[cur] = BUDDY_STATE_IDLE
             THEN <<cur, [t EXCEPT ![cur] = size]>>
             ELSE <<0, t>>
        ELSE IF t[cur] = BUDDY_STATE_IDLE
        THEN internal_allocate_buddy(
                 [t EXCEPT ![cur] = BUDDY_STATE_SPLT_HALFWAY,
                           ![l] = BUDDY_STATE_IDLE, ![r] = BUDDY_STATE_IDLE],
                 level, l, size)
        ELSE IF t[cur] = BUDDY_STATE_SPLT_HALFWAY
        THEN LET left == internal_allocate_buddy(t, level, l, size)
                 ret == IF left[1] = 0
                        THEN internal_allocate_buddy(left[2], level, r, size)
                        ELSE left
             IN  IF ret[1] > 0 /\ BUDDY_IS_FULL(ret[2][l]) /\ BUDDY_IS_FULL(ret[2][r])
                 THEN <<ret[1], [ret[2] EXCEPT ![cur] = BUDDY_STATE_SPLT_FULL]>>
                 ELSE ret
        ELSE <<0, t>>

\* BuddySystem::allocate_buddy(level, size)
allocate_buddy_IdleRootOnly(t, level, size) ==
    IF t[1] = BUDDY_STATE_IDLE THEN internal_allocate_buddy(t, level, 1, size) ELSE <<0, t>>
allocate_buddy_MarksFull(t, level, size) ==
    IF level < 1 \/ level > total_level THEN <<-1, t>>
    ELSE LET got == internal_allocate_buddy(t, level, 1, size)
         IN  IF got[1] = 0 THEN <<0, [t EXCEPT ![1] = BUDDY_STATE_SPLT_FULL]>> ELSE got
allocate_buddy(t, level, size) ==
    IF level < 1 \/ level > total_level THEN <<-1, t>>
    ELSE internal_allocate_buddy(t, level, 1, size)

\* what a read of cell n of the tree t can find
Read(t, n) == IF t[n] = UNINITIALIZED THEN Garbage ELSE {t[n]}

\* The loop of BuddySystem::free_buddy from `parent` upwards: the set of trees it
\* can leave. `&&` reads the right child only if the left one is idle, and the
\* parent is read only if the children are not both idle.
RECURSIVE free_buddy_walk(_, _)
free_buddy_walk(t, parent) ==
    IF parent = 0 THEN {t}
    ELSE UNION { LET tl == [t EXCEPT ![2 * parent] = lv]
                 IN  IF lv # BUDDY_STATE_IDLE
                     THEN UNION { LET tp == [tl EXCEPT ![parent] = pv]
                                  IN  IF pv = BUDDY_STATE_SPLT_FULL
                                      THEN free_buddy_walk(
                                               [tp EXCEPT ![parent] = BUDDY_STATE_SPLT_HALFWAY],
                                               parent \div 2)
                                      ELSE {tp}
                                  : pv \in Read(tl, parent) }
                     ELSE UNION { LET tr == [tl EXCEPT ![2 * parent + 1] = rv]
                                  IN  IF rv = BUDDY_STATE_IDLE
                                      THEN free_buddy_walk(
                                               [tr EXCEPT ![parent] = BUDDY_STATE_IDLE],
                                               parent \div 2)
                                      ELSE UNION { LET tp == [tr EXCEPT ![parent] = pv]
                                                   IN  IF pv = BUDDY_STATE_SPLT_FULL
                                                       THEN free_buddy_walk(
                                                                [tp EXCEPT ![parent] =
                                                                    BUDDY_STATE_SPLT_HALFWAY],
                                                                parent \div 2)
                                                       ELSE {tp}
                                                   : pv \in Read(tr, parent) }
                                  : rv \in Read(tl, 2 * parent + 1) }
                 : lv \in Read(t, 2 * parent) }

\* BuddySystem::free_buddy(node_number): the set of pairs <<outcome, tree>> it can
\* end with.
free_buddy(t, node_number) ==
    IF node_number >= 2^total_level THEN {<<"InvalidArgument", t>>}
    ELSE UNION { LET tn == [t EXCEPT ![node_number] = v]
                 IN  IF v <= 0 THEN {<<"InvalidArgument", tn>>}
                     ELSE { <<"ok", w>> :
                              w \in free_buddy_walk(
                                        [tn EXCEPT ![node_number] = BUDDY_STATE_IDLE],
                                        node_number \div 2) }
                 : v \in Read(t, node_number) }

\* the sizes and offsets a caller passes
AllocSizes == {1, 100, unit_size, unit_size + 1, 2 * unit_size, 3 * unit_size,
               4 * unit_size, capacity, capacity + 1}
FreeOffsets == {k * unit_size : k \in 0..(capacity \div unit_size)} \cup {unit_size \div 2}

InitBT ==
    /\ buddies = [n \in Nodes |-> IF n = 1 THEN BUDDY_STATE_IDLE ELSE UNINITIALIZED]
    /\ live = {}
    /\ bt_result = [op |-> "none"]
    /\ misused = FALSE
    /\ va_tree = <<>> /\ va_mutex = {} /\ va_flock = {} /\ va_th = <<>> /\ va_live = {}
    /\ fs_dir = {} /\ fs_file = <<>> /\ sp_proc = <<>> /\ sp_pools = {}
    /\ sp_result = [op |-> "none"]
    /\ tm_log = <<>> /\ tm_position = 0 /\ tm_pc = <<>> /\ tm_file = <<>>
    /\ tm_since = <<>> /\ tm_clock = 0 /\ tm_cleared_at = 0
    /\ segments = {} /\ cr_attr = [op |-> "none"] /\ cr_result = "none"
    /\ cr_header = [created |-> FALSE]
    /\ attr = Ring(2, 2, FALSE, FALSE)
    /\ head = U32(0, 0) /\ tail = U32(0, 0)
    /\ producer_lock = FALSE /\ consumer_lock = FALSE
    /\ slots = [i \in 0..1 |-> <<0, 0>>]
    /\ now = 0
    /\ th = [t \in Threads |-> Idle]
    /\ nproduce = 0 /\ nconsume = 0
    /\ produced = <<>> /\ consumed = <<>>

\* The allocations the caller holds are the records of `live`: offset, span
\* (RANGE_OF the node) and requested size, and nth, which tells apart the
\* allocations that allocate() handed out at one offset.
Held(offset) == Cardinality({a \in live : a.offset = offset})

\* BuddySystem::allocate(size)
allocate(size) ==
    LET bexp == Max(nearest_power_of_two_exp(size, 64), unit_exp)
        requested_level == total_level - (bexp - unit_exp)
        got == allocate_buddy(buddies, requested_level, size)
        node == got[1]
    IN  /\ IF bexp > capacity_exp
             THEN /\ bt_result' = [op |-> "allocate", size |-> size, outcome |-> "InvalidArgument"]
                  /\ UNCHANGED <<buddies, live>>
             ELSE IF node = -1
             THEN /\ bt_result' = [op |-> "allocate", size |-> size, outcome |-> "InvalidArgument"]
                  /\ buddies' = got[2]
                  /\ UNCHANGED live
             ELSE IF node = 0
             THEN /\ bt_result' = [op |-> "allocate", size |-> size, outcome |-> "OutOfSpace"]
                  /\ buddies' = got[2]
                  /\ UNCHANGED live
             ELSE /\ bt_result' = [op |-> "allocate", size |-> size, outcome |-> "ok",
                                   offset |-> OFFSET_OF(node, capacity)]
                  /\ buddies' = got[2]
                  /\ live' = live \cup {[offset |-> OFFSET_OF(node, capacity),
                                         span |-> RANGE_OF(node, capacity),
                                         size |-> size,
                                         nth |-> Held(OFFSET_OF(node, capacity)) + 1]}
        /\ UNCHANGED <<misused, rbvars, crvars, vavars, spvars, tmvars>>

\* BuddySystem::free(offset). The caller gives up the allocation that starts at
\* offset when the call returns.
free(offset) ==
    /\ IF offset % unit_size # 0
         THEN /\ bt_result' = [op |-> "free", offset |-> offset, outcome |-> "InvalidArgument"]
              /\ UNCHANGED <<buddies, live>>
         ELSE \E end \in free_buddy(buddies, (capacity + offset) \div unit_size) :
                /\ bt_result' = [op |-> "free", offset |-> offset, outcome |-> end[1]]
                /\ buddies' = end[2]
                /\ live' = IF end[1] = "ok"
                           THEN {a \in live : ~(a.offset = offset /\ a.nth = Held(offset))}
                           ELSE live
    /\ misused' = (misused \/ Held(offset) = 0)
    /\ UNCHANGED <<rbvars, crvars, vavars, spvars, tmvars>>

\* BuddySystem::internal_is_free(cur, offset, size) on the tree t. A cell that is
\* neither idle nor full is taken for BUDDY_STATE_SPLT_HALFWAY.
RECURSIVE internal_is_free(_, _, _, _)
internal_is_free(t, cur, offset, size) ==
    IF t[cur] = BUDDY_STATE_IDLE THEN TRUE
    ELSE IF BUDDY_IS_FULL(t[cur]) THEN FALSE
    ELSE LET l == 2 * cur
             r == 2 * cur + 1
             mid == OFFSET_OF(r, capacity)
         IN  IF offset + size <= mid THEN internal_is_free(t, l, offset, size)
             ELSE IF offset >= mid THEN internal_is_free(t, r, offset, size)
             ELSE /\ internal_is_free(t, l, offset, mid - offset)
                  /\ internal_is_free(t, r, mid, offset + size - mid)

\* the while loop of BuddySystem::query: the node it stops at
RECURSIVE query_walk(_, _, _, _)
RECURSIVE query_walk_LeftOnly(_, _, _, _)
query_walk_LeftOnly(t, root, leaf_index, num_leaves) ==
    IF t[root] = BUDDY_STATE_SPLT_FULL \/ t[root] = BUDDY_STATE_SPLT_HALFWAY
    THEN query_walk_LeftOnly(t, 2 * root, leaf_index, num_leaves \div 2)
    ELSE root
query_walk(t, root, leaf_index, num_leaves) ==
    IF t[root] = BUDDY_STATE_SPLT_FULL \/ t[root] = BUDDY_STATE_SPLT_HALFWAY
    THEN IF leaf_index < num_leaves \div 2
         THEN query_walk(t, 2 * root, leaf_index, num_leaves \div 2)
         ELSE query_walk(t, 2 * root + 1, leaf_index - num_leaves \div 2, num_leaves \div 2)
    ELSE root

\* the ranges and offsets a caller asks about
IsFreeRanges ==
    {<<0, 1>>, <<0, unit_size>>, <<unit_size, unit_size>>, <<unit_size \div 2, unit_size>>,
     <<unit_size, 2 * unit_size>>, <<2 * unit_size, 2 * unit_size>>,
     <<capacity - unit_size, unit_size>>, <<0, capacity>>,
     <<capacity - unit_size, unit_size + 1>>}
QueryOffsets ==
    {k * unit_size : k \in 0..(capacity \div unit_size - 1)}
        \cup {k * unit_size - 1 : k \in 1..(capacity \div unit_size)} \cup {1}

\* BuddySystem::is_free(offset, size)
is_free(offset, size) ==
    /\ bt_result' =
          IF offset + size > capacity
          THEN [op |-> "is_free", offset |-> offset, size |-> size,
                outcome |-> "InvalidArgument"]
          ELSE [op |-> "is_free", offset |-> offset, size |-> size, outcome |-> "ok",
                ret |-> internal_is_free(buddies, 1, offset, size)]
    /\ UNCHANGED <<buddies, live, misused, rbvars, crvars, vavars, spvars, tmvars>>

\* BuddySystem::query(offset)
query(offset) ==
    LET root == query_walk(buddies, 1, offset \div unit_size, 2^(total_level - 1))
        nodes_at_level == (2^nearest_power_of_two_exp(root + 1, 32)) \div 2
        buddy_offset == ((root - nodes_at_level) * capacity) \div nodes_at_level
    IN  /\ bt_result' =
              IF buddies[root] = BUDDY_STATE_IDLE
              THEN [op |-> "query", offset |-> offset, outcome |-> "InvalidArgument"]
              ELSE [op |-> "query", offset |-> offset, outcome |-> "ok",
                    first |-> buddy_offset, second |-> buddies[root]]
        /\ UNCHANGED <<buddies, live, misused, rbvars, crvars, vavars, spvars, tmvars>>

NextBT ==
    \/ \E size \in AllocSizes : allocate(size)
    \/ \E offset \in FreeOffsets : free(offset)
    \/ \E range \in IsFreeRanges : is_free(range[1], range[2])
    \/ \E offset \in QueryOffsets : query(offset)

SpecBT == InitBT /\ [][NextBT]_vars

\* the bytes [offset, offset + span) of two allocations have nothing in common
Disjoint(a, b) == a.offset + a.span <= b.offset \/ b.offset + b.span <= a.offset

\* C10: after any sequence of allocate and free calls, the allocations the caller
\* holds occupy pairwise disjoint byte ranges, each inside [0, capacity), each
\* starting at a multiple of its span, each at least as long as the size asked for.
C10_NoOverlap ==
    \A a \in live :
        /\ a.offset >= 0 /\ a.offset + a.span <= capacity
        /\ a.offset % a.span = 0
        /\ a.span >= a.size
        /\ \A b \in live : a # b => Disjoint(a, b)

----------------------------------------------------------------------------
\* Properties of the buddy tree

IsSplit(v) == v = BUDDY_STATE_SPLT_HALFWAY \/ v = BUDDY_STATE_SPLT_FULL
RECURSIVE Descendants(_)
Descendants(n) ==
    IF 2 * n \in Nodes
    THEN {2 * n, 2 * n + 1} \cup Descendants(2 * n) \cup Descendants(2 * n + 1)
    ELSE {}
\* the cells that belong to the tree: the root and the children of split cells
RECURSIVE InTree(_)
InTree(n) == n = 1 \/ (IsSplit(buddies[n \div 2]) /\ InTree(n \div 2))

\* C11: after any sequence of valid allocate and free calls, every positive cell has
\* no positive and no split cell below it, every split cell has a child that is not
\* idle, and a split cell is SPLT_FULL exactly if both its children are positive or
\* SPLT_FULL. (A cell nothing has written or read yet is neither positive nor split.)
C11_StructuralInvariants ==
    ~misused =>
        /\ \A n \in Nodes : buddies[n] > 0 =>
              \A d \in Descendants(n) : ~(buddies[d] > 0 \/ IsSplit(buddies[d]))
        /\ \A n \in Nodes : IsSplit(buddies[n]) =>
              /\ 2 * n \in Nodes
              /\ buddies[2 * n] # BUDDY_STATE_IDLE \/ buddies[2 * n + 1] # BUDDY_STATE_IDLE
              /\ buddies[n] = BUDDY_STATE_SPLT_FULL <=>
                    (BUDDY_IS_FULL(buddies[2 * n]) /\ BUDDY_IS_FULL(buddies[2 * n + 1]))

\* C12: free(offset) of an allocation the caller holds, whatever its span, returns
\* normally, and afterwards the range [offset, offset + span) is free.
C12_FreeReleasesAnySpan ==
    [][\A a \in live :
          (~misused' /\ bt_result'.op = "free" /\ bt_result'.offset = a.offset) =>
              /\ bt_result'.outcome = "ok"
              /\ internal_is_free(buddies', 1, a.offset, a.span)]_vars

\* C13: when every allocation has been freed, by valid calls in any order, the
\* root cell is idle, and allocate(capacity) succeeds with offset 0.
C13_Coalescing ==
    ~misused =>
        /\ live = {} => buddies[1] = BUDDY_STATE_IDLE
        /\ (bt_result.op = "allocate" /\ bt_result.size = capacity) =>
              IF bt_result.outcome = "ok" THEN bt_result.offset = 0 ELSE live # {}

LeastPowerOfTwo(x) == CHOOSE p \in {2^k : k \in 0..30} : p >= x /\ (p \div 2 < x \/ p = 1)

\* C15: nearest_power_of_two(size) is the least power of two >= size; allocate(size)
\* puts the allocation on a node of span max(unit_size, that power of two), and
\* raises InvalidArgument exactly if this span exceeds the capacity.
C15_SizeRounding ==
    bt_result.op = "allocate" =>
          LET span == Max(unit_size, LeastPowerOfTwo(bt_result.size))
          IN  /\ nearest_power_of_two_exp(bt_result.size, 64) =
                    Log2(LeastPowerOfTwo(bt_result.size))
              /\ bt_result.outcome = "InvalidArgument" <=> span > capacity
              /\ bt_result.outcome = "ok" =>
                    \E a \in live : /\ a.offset = bt_result.offset
                                    /\ a.size = bt_result.size
                                    /\ a.span = span

\* no allocation of more than one unit is in the tree
UnitAllocationsOnly ==
    \A n \in Nodes : (InTree(n) /\ buddies[n] > 0) => LEVEL_OF(n) = total_level

\* C16: with allocations of one unit only, allocate(unit_size) succeeds as long as
\* fewer than capacity / unit_size of them are held (on the fresh tree, and again
\* after any one of them is freed), and fails with OutOfSpace when all are held.
C16_Exhaustion ==
    (~misused /\ UnitAllocationsOnly
        /\ bt_result.op = "allocate" /\ bt_result.size = unit_size) =>
            IF bt_result.outcome = "ok"
            THEN Cardinality(live) <= capacity \div unit_size
            ELSE /\ bt_result.outcome = "OutOfSpace"
                 /\ Cardinality(live) = capacity \div unit_size
\* all units are held again, the last one handed out being the second unit, which
\* was freed while the third and fourth were held
C16_Witness ==
    /\ ~misused /\ UnitAllocationsOnly
    /\ bt_result.op = "allocate" /\ bt_result.size = unit_size
    /\ bt_result.outcome = "ok" /\ bt_result.offset = unit_size
    /\ Cardinality(live) = capacity \div unit_size

\* C17: free(offset) with an offset at which no held allocation starts (freed
\* already, not a multiple of unit_size, or >= capacity) raises InvalidArgument
\* and writes no cell of the tree.
C17_InvalidFree ==
    [][(bt_result'.op = "free" /\ \A a \in live : a.offset # bt_result'.offset) =>
          /\ bt_result'.outcome = "InvalidArgument"
          /\ \A n \in Nodes : buddies'[n] = buddies[n] \/ buddies[n] = UNINITIALIZED]_vars

\* the range [offset, offset + size) meets the span of an allocation that is held
MeetsLive(offset, size) ==
    \E a \in live : ~(offset + size <= a.offset \/ a.offset + a.span <= offset)
\* the offsets of the blocks of `span` bytes, aligned to span, that meet no allocation
FreeBlocks(span) ==
    {o \in {k * span : k \in 0..(capacity \div span - 1)} : ~MeetsLive(o, span)}
Lowest(S) == CHOOSE x \in S : \A y \in S : x <= y

\* C18: allocate(size) returns the lowest offset among the free blocks of the span
\* the size rounds to, aligned to that span; in the test sequence, 100 bytes after
\* 1 MiB is placed at offset 1 MiB.
C18_LeftFirstPlacement ==
    [][(~misused /\ bt_result'.op = "allocate") =>
          LET span == Max(unit_size, LeastPowerOfTwo(bt_result'.size))
          IN  IF span <= capacity /\ FreeBlocks(span) # {}
              THEN /\ bt_result'.outcome = "ok"
                   /\ bt_result'.offset = Lowest(FreeBlocks(span))
              ELSE bt_result'.outcome # "ok"]_vars

\* C19: is_free(offset, size) with offset + size <= capacity returns true exactly if
\* the range meets the span of no held allocation; with offset + size > capacity it
\* raises InvalidArgument; it writes no cell of the tree.
C19_IsFree ==
    [][bt_result'.op = "is_free" =>
          /\ buddies' = buddies
          /\ IF bt_result'.offset + bt_result'.size > capacity
             THEN bt_result'.outcome = "InvalidArgument"
             ELSE /\ bt_result'.outcome = "ok"
                  /\ ~misused =>
                        (bt_result'.ret <=> ~MeetsLive(bt_result'.offset, bt_result'.size))]_vars

\* ---------------------------------------------------------------------------
\* VAW: the virtual address window of a group. Its buddy tree lives in a file
\* that every attached process maps MAP_SHARED; VAW::allocate and VAW::free
\* work on it under the process's buddies_mutex and a flock on the file.
\* ---------------------------------------------------------------------------

\* WS_SHM_POOL_VA_SIZE is 0x100000000000 and WS_MIN_SHM_POOL_SIZE is 0x000100000000:
\* powers of two, kept by their exponents
WS_SHM_POOL_VA_SIZE_LOG2 == 44
WS_MIN_SHM_POOL_SIZE_LOG2 == 32

\* the value a const uint32_t parameter takes when it is passed 2^e
AsUint32(e) == IF e >= 32 THEN 0 ELSE 2^e

\* VAW::VAW hands the two sizes to BuddySystem(const uint32_t capacity_exp,
\* const uint32_t unit_exp, ...), which computes capacity(1ull << capacity_exp),
\* unit_size(1ull << unit_exp) and total_level from them
va_capacity_exp == AsUint32(WS_SHM_POOL_VA_SIZE_LOG2)
va_unit_exp == AsUint32(WS_MIN_SHM_POOL_SIZE_LOG2)
va_capacity == 2^va_capacity_exp
va_unit_size == 2^va_unit_exp
va_total_level == Log2(va_capacity \div va_unit_size) + 1
VaNodes == 1..(2^va_total_level - 1)

\* the calling threads and the process each belongs to: the threads of a
\* process share its VAW singleton, hence its buddies_mutex and its fd
VaCallers == {"a1", "a2", "b1"}
ProcOf(c) == IF c = "b1" THEN "B" ELSE "A"
VaProcs == {ProcOf(c) : c \in VaCallers}

\* the operations of flock(2), which are also the states of a process's lock
LOCK_SH == "LOCK_SH"
LOCK_EX == "LOCK_EX"
LOCK_UN == "LOCK_UN"

\* the pool sizes and pool offsets a caller passes
VaPoolSizes == {1, 2, 3}
VaPoolOffsets == {0, 1, 2}
VaQueryOffsets == {0, 1}

VaIdle == [pc |-> "idle", op |-> "none", arg |-> 0, snap |-> <<>>,
           outcome |-> "none", ret |-> 0, second |-> 0]

\* VAW::create has built the file and set cell 1 to idle (init_flag = true);
\* the processes have attached with VAW::initialize.
InitVAW ==
    /\ va_tree = [n \in VaNodes |-> BUDDY_STATE_IDLE]
    /\ va_mutex = {}
    /\ va_flock = [p \in VaProcs |-> LOCK_UN]
    /\ va_th = [c \in VaCallers |-> VaIdle]
    /\ va_live = {}
    /\ fs_dir = {} /\ fs_file = <<>> /\ sp_proc = <<>> /\ sp_pools = {}
    /\ sp_result = [op |-> "none"]
    /\ tm_log = <<>> /\ tm_position = 0 /\ tm_pc = <<>> /\ tm_file = <<>>
    /\ tm_since = <<>> /\ tm_clock = 0 /\ tm_cleared_at = 0
    /\ buddies = <<>> /\ live = {} /\ bt_result = [op |-> "none"] /\ misused = FALSE
    /\ segments = {} /\ cr_attr = [op |-> "none"] /\ cr_result = "none"
    /\ cr_header = [created |-> FALSE]
    /\ attr = Ring(2, 2, FALSE, FALSE)
    /\ head = U32(0, 0) /\ tail = U32(0, 0)
    /\ producer_lock = FALSE /\ consumer_lock = FALSE
    /\ slots = [i \in 0..1 |-> <<0, 0>>]
    /\ now = 0
    /\ th = [t \in Threads |-> Idle]
    /\ nproduce = 0 /\ nconsume = 0
    /\ produced = <<>> /\ consumed = <<>>

\* BuddySystem::allocate(size) of the VAW's tree, on the cells t:
\* <<outcome, offset, cells>>
va_buddies_allocate(t, size) ==
    LET bexp == Max(nearest_power_of_two_exp(size, 64), va_unit_exp)
        requested_level == va_total_level - (bexp - va_unit_exp)
        got == IF requested_level < 1 \/ requested_level > va_total_level
               THEN <<-1, t>>
               ELSE internal_allocate_buddy(t, requested_level, 1, size)
    IN  IF bexp > va_capacity_exp THEN <<"InvalidArgument", 0, t>>
        ELSE IF got[1] = -1 THEN <<"InvalidArgument", 0, got[2]>>
        ELSE IF got[1] = 0 THEN <<"OutOfSpace", 0, got[2]>>
        ELSE <<"ok", OFFSET_OF(got[1], va_capacity), got[2]>>

\* BuddySystem::free(offset) of the VAW's tree, on the cells t: the set of
\* pairs <<outcome, cells>> it can end with
va_buddies_free(t, offset) ==
    LET node_number == (va_capacity + offset) \div va_unit_size
    IN  IF offset % va_unit_size # 0 THEN {<<"InvalidArgument", t>>}
        ELSE IF node_number >= 2^va_total_level THEN {<<"InvalidArgument", t>>}
        ELSE IF t[node_number] <= 0 THEN {<<"InvalidArgument", t>>}
        ELSE { <<"ok", w>> :
                 w \in free_buddy_walk([t EXCEPT ![node_number] = BUDDY_STATE_IDLE],
                                       node_number \div 2) }

\* the ranges allocated in the group are the records of va_live: offset, span
\* (the pool size), the caller that obtained it, and nth, which tells apart
\* the ranges handed out at one offset
VaHeld(offset) == Cardinality({a \in va_live : a.offset = offset})

\* VAW::allocate(pool_size), step 1: the pool size is validated
va_allocate(c, pool_size) ==
    /\ va_th[c].pc = "idle"
    /\ IF ~is_power_of_two(pool_size) \/ pool_size > va_capacity \/ pool_size < va_unit_size
         THEN va_th' = [va_th EXCEPT ![c] = [VaIdle EXCEPT !.op = "allocate",
                                                           !.arg = pool_size,
                                                           !.outcome = "InvalidArgument"]]
         ELSE va_th' = [va_th EXCEPT ![c] = [VaIdle EXCEPT !.pc = "mutex",
                                                           !.op = "allocate",
                                                           !.arg = pool_size]]
    /\ UNCHANGED <<va_tree, va_mutex, va_flock, va_live, rbvars, crvars, btvars, spvars, tmvars>>

\* VAW::free(pool_offset), step 1: the pool offset is validated
va_free(c, pool_offset) ==
    /\ va_th[c].pc = "idle"
    /\ IF pool_offset % va_unit_size # 0 \/ pool_offset > va_capacity
         THEN va_th' = [va_th EXCEPT ![c] = [VaIdle EXCEPT !.op = "free",
                                                           !.arg = pool_offset,
                                                           !.outcome = "InvalidArgument"]]
         ELSE va_th' = [va_th EXCEPT ![c] = [VaIdle EXCEPT !.pc = "mutex",
                                                           !.op = "free",
                                                           !.arg = pool_offset]]
    /\ UNCHANGED <<va_tree, va_mutex, va_flock, va_live, rbvars, crvars, btvars, spvars, tmvars>>

\* step 2: std::lock_guard<std::mutex> lock(buddies_mutex) returns once no
\* other thread of the process holds the mutex
va_lock_guard(c) ==
    /\ va_th[c].pc = "mutex"
    /\ ProcOf(c) \notin va_mutex
    /\ va_mutex' = va_mutex \cup {ProcOf(c)}
    /\ va_th' = [va_th EXCEPT ![c].pc = "flock"]
    /\ UNCHANGED <<va_tree, va_flock, va_live, rbvars, crvars, btvars, spvars, tmvars>>

\* flock(fd, LOCK_EX) is granted when no open file description of another
\* process holds a lock on the file
FlockGranted_Always(c) == TRUE
FlockGranted(c) == \A q \in VaProcs \ {ProcOf(c)} : va_flock[q] = LOCK_UN

\* step 3: flock(fd, LOCK_EX). It blocks until granted, or fails with -1, and
\* then the call throws and the lock_guard releases the mutex.
va_flock_ex(c) ==
    /\ va_th[c].pc = "flock"
    /\ va_th[c].op # "query"
    /\ \E granted \in BOOLEAN :
         IF granted
         THEN /\ FlockGranted(c)
              /\ va_flock' = [va_flock EXCEPT ![ProcOf(c)] = LOCK_EX]
              /\ va_th' = [va_th EXCEPT ![c].pc = "read"]
              /\ UNCHANGED va_mutex
         ELSE /\ va_th' = [va_th EXCEPT ![c].pc = "idle", ![c].outcome = "SystemError"]
              /\ va_mutex' = va_mutex \ {ProcOf(c)}
              /\ UNCHANGED va_flock
    /\ UNCHANGED <<va_tree, va_live, rbvars, crvars, btvars, spvars, tmvars>>

\* step 4, first half: buddies->allocate / buddies->free reads the cells
va_buddies_read(c) ==
    /\ va_th[c].pc = "read"
    /\ va_th' = [va_th EXCEPT ![c].pc = IF va_th[c].op = "query" THEN "result" ELSE "write",
                               ![c].snap = va_tree]
    /\ UNCHANGED <<va_tree, va_mutex, va_flock, va_live, rbvars, crvars, btvars, spvars, tmvars>>

\* `catch (ws_exp& ex) { ... throw ex; }` throws a copy of static type ws_exp:
\* the caller gets the message of the buddy-tree error in an exception of the
\* root type, whatever the type the buddy tree threw
Rethrown(outcome) == "ws_exp"

\* step 4, second half: buddies->allocate / buddies->free writes the cells
\* that follow from what it read. An exception is caught: flock(fd, LOCK_UN),
\* whose result is not looked at, then the exception is rethrown and the
\* lock_guard releases the mutex.
va_buddies_write(c) ==
    /\ va_th[c].pc = "write"
    /\ IF va_th[c].op = "allocate"
         THEN LET got == va_buddies_allocate(va_th[c].snap, va_th[c].arg)
              IN  /\ va_tree' = got[3]
                  /\ IF got[1] = "ok"
                       THEN /\ va_th' = [va_th EXCEPT ![c].pc = "unlock", ![c].snap = <<>>,
                                                      ![c].outcome = "ok", ![c].ret = got[2]]
                            /\ va_live' = va_live \cup {[offset |-> got[2],
                                                         span |-> va_th[c].arg,
                                                         by |-> c,
                                                         nth |-> VaHeld(got[2]) + 1]}
                            /\ UNCHANGED <<va_mutex, va_flock>>
                       ELSE /\ va_th' = [va_th EXCEPT ![c].pc = "idle", ![c].snap = <<>>,
                                                      ![c].outcome = Rethrown(got[1])]
                            /\ \E unlocked \in BOOLEAN :
                                 va_flock' = IF unlocked
                                             THEN [va_flock EXCEPT ![ProcOf(c)] = LOCK_UN]
                                             ELSE va_flock
                            /\ va_mutex' = va_mutex \ {ProcOf(c)}
                            /\ UNCHANGED va_live
         ELSE \E end \in va_buddies_free(va_th[c].snap, va_th[c].arg) :
                /\ va_tree' = end[2]
                /\ IF end[1] = "ok"
                     THEN /\ va_th' = [va_th EXCEPT ![c].pc = "unlock", ![c].snap = <<>>,
                                                    ![c].outcome = "ok"]
                          /\ va_live' = {a \in va_live :
                                            ~(a.offset = va_th[c].arg
                                              /\ a.nth = VaHeld(va_th[c].arg))}
                          /\ UNCHANGED <<va_mutex, va_flock>>
                     ELSE /\ va_th' = [va_th EXCEPT ![c].pc = "idle", ![c].snap = <<>>,
                                                    ![c].outcome = Rethrown(end[1])]
                          /\ \E unlocked \in BOOLEAN :
                               va_flock' = IF unlocked
                                           THEN [va_flock EXCEPT ![ProcOf(c)] = LOCK_UN]
                                           ELSE va_flock
                          /\ va_mutex' = va_mutex \ {ProcOf(c)}
                          /\ UNCHANGED va_live
    /\ UNCHANGED <<rbvars, crvars, btvars, spvars, tmvars>>

\* step 5: flock(fd, LOCK_UN) and the return. If it fails with -1 the call
\* throws with the file still locked. The lock_guard releases the mutex either way.
va_flock_un(c) ==
    /\ va_th[c].pc = "unlock"
    /\ \E unlocked \in BOOLEAN :
         IF unlocked
         THEN /\ va_flock' = [va_flock EXCEPT ![ProcOf(c)] = LOCK_UN]
              /\ va_th' = [va_th EXCEPT ![c].pc = "idle"]
         ELSE /\ va_th' = [va_th EXCEPT ![c].pc = "idle", ![c].outcome = "SystemError"]
              /\ UNCHANGED va_flock
    /\ va_mutex' = va_mutex \ {ProcOf(c)}
    /\ UNCHANGED <<va_tree, va_live, rbvars, crvars, btvars, spvars, tmvars>>

\* BuddySystem::query(offset) of the VAW's tree, on the cells t:
\* <<outcome, first, second>>
va_buddies_query(t, offset) ==
    LET root == query_walk(t, 1, offset \div va_unit_size, 2^(va_total_level - 1))
        nodes_at_level == (2^nearest_power_of_two_exp(root + 1, 32)) \div 2
        buddy_offset == ((root - nodes_at_level) * va_capacity) \div nodes_at_level
    IN  IF t[root] = BUDDY_STATE_IDLE THEN <<"InvalidArgument", 0, 0>>
        ELSE <<"ok", buddy_offset, t[root]>>

\* VAW::query(va_offset): there is no validation, the call goes for the mutex
va_query(c, va_offset) ==
    /\ va_th[c].pc = "idle"
    /\ va_th' = [va_th EXCEPT ![c] = [VaIdle EXCEPT !.pc = "mutex", !.op = "query",
                                                      !.arg = va_offset]]
    /\ UNCHANGED <<va_tree, va_mutex, va_flock, va_live, rbvars, crvars, btvars, spvars, tmvars>>

\* flock(fd, LOCK_SH) is granted when no open file description of another
\* process holds an exclusive lock on the file
FlockSharedGranted_Always(c) == TRUE
FlockSharedGranted(c) == \A q \in VaProcs \ {ProcOf(c)} : va_flock[q] # LOCK_EX

\* VAW::query, step 2: flock(fd, LOCK_SH). It blocks until granted, or fails
\* with -1, and then the call throws and the lock_guard releases the mutex.
va_flock_sh(c) ==
    /\ va_th[c].pc = "flock"
    /\ va_th[c].op = "query"
    /\ \E granted \in BOOLEAN :
         IF granted
         THEN /\ FlockSharedGranted(c)
              /\ va_flock' = [va_flock EXCEPT ![ProcOf(c)] = LOCK_SH]
              /\ va_th' = [va_th EXCEPT ![c].pc = "read"]
              /\ UNCHANGED va_mutex
         ELSE /\ va_th' = [va_th EXCEPT ![c].pc = "idle", ![c].outcome = "SystemError"]
              /\ va_mutex' = va_mutex \ {ProcOf(c)}
              /\ UNCHANGED va_flock
    /\ UNCHANGED <<va_tree, va_live, rbvars, crvars, btvars, spvars, tmvars>>

\* VAW::query, step 3, second half: buddies->query answers from the cells it
\* read. An exception is caught: flock(fd, LOCK_UN), whose result is not looked
\* at, then the exception is rethrown and the lock_guard releases the mutex.
va_buddies_result(c) ==
    /\ va_th[c].pc = "result"
    /\ LET got == va_buddies_query(va_th[c].snap, va_th[c].arg)
       IN  IF got[1] = "ok"
           THEN /\ va_th' = [va_th EXCEPT ![c].pc = "unlock", ![c].snap = <<>>,
                                          ![c].outcome = "ok", ![c].ret = got[2],
                                          ![c].second = got[3]]
                /\ UNCHANGED <<va_mutex, va_flock>>
           ELSE /\ va_th' = [va_th EXCEPT ![c].pc = "idle", ![c].snap = <<>>,
                                          ![c].outcome = Rethrown(got[1])]
                /\ \E unlocked \in BOOLEAN :
                     va_flock' = IF unlocked
                                 THEN [va_flock EXCEPT ![ProcOf(c)] = LOCK_UN]
                                 ELSE va_flock
                /\ va_mutex' = va_mutex \ {ProcOf(c)}
    /\ UNCHANGED <<va_tree, va_live, rbvars, crvars, btvars, spvars, tmvars>>

NextVAW ==
    \/ \E c \in VaCallers, pool_size \in VaPoolSizes : va_allocate(c, pool_size)
    \/ \E c \in VaCallers, pool_offset \in VaPoolOffsets : va_free(c, pool_offset)
    \/ \E c \in VaCallers : va_lock_guard(c)
    \/ \E c \in VaCallers : va_flock_ex(c)
    \/ \E c \in VaCallers : va_buddies_read(c)
    \/ \E c \in VaCallers : va_buddies_write(c)
    \/ \E c \in VaCallers : va_flock_un(c)
    \/ \E c \in VaCallers, va_offset \in VaQueryOffsets : va_query(c, va_offset)
    \/ \E c \in VaCallers : va_flock_sh(c)
    \/ \E c \in VaCallers : va_buddies_result(c)

SpecVAW == InitVAW /\ [][NextVAW]_vars

\* C20: under any interleaving of VAW allocate (and free) calls by the threads
\* of the processes attached to a group, the ranges [offset, offset + pool_size)
\* allocated in the group, those being returned by a call in progress included,
\* are pairwise disjoint and lie inside the window.
C20_CrossProcessSerialization ==
    \A a \in va_live :
        /\ a.offset >= 0 /\ a.offset + a.span <= va_capacity
        /\ \A b \in va_live : a # b => Disjoint(a, b)

\* a thread of one process holds the file lock with the range allocate found
\* for it while a thread of another process waits inside allocate for the lock
C20_Witness ==
    \E c \in VaCallers, d \in VaCallers :
        /\ ProcOf(c) # ProcOf(d)
        /\ va_th[c].op = "allocate" /\ va_th[c].pc = "unlock" /\ va_th[c].outcome = "ok"
        /\ \E a \in va_live : a.by = c /\ a.offset = va_th[c].ret
        /\ va_th[d].op = "allocate" /\ va_th[d].pc = "flock"

\* the thread is inside the buddy-tree call of its VAW operation
InBuddyCall(c) == va_th[c].pc \in {"read", "write", "result"}
\* the thread is between its lock_guard and its return
InsideLocks(c) == va_th[c].pc \in {"flock", "read", "write", "result", "unlock"}
Mutating(c) == va_th[c].op \in {"allocate", "free"}

\* C21: allocate and free hold the process's mutex and then the exclusive file
\* lock around the buddy-tree call, query holds the mutex and then the shared
\* file lock; so a thread inside a buddy-tree mutation is the only thread inside
\* a buddy-tree call of the group, and queries overlap with queries only.
C21_LockDiscipline ==
    /\ \A c \in VaCallers :
          /\ InsideLocks(c) => ProcOf(c) \in va_mutex
          /\ (va_th[c].pc \in {"read", "write", "result", "unlock"}) =>
                va_flock[ProcOf(c)] = IF Mutating(c) THEN LOCK_EX ELSE LOCK_SH
    /\ \A c \in VaCallers, d \in VaCallers :
          /\ (c # d /\ ProcOf(c) = ProcOf(d)) => ~(InsideLocks(c) /\ InsideLocks(d))
          /\ (c # d /\ InBuddyCall(c) /\ InBuddyCall(d)) => (~Mutating(c) /\ ~Mutating(d))

\* queries of two processes read the tree under the shared lock at the same
\* time while a mutation of the group waits
C21_Witness ==
    \E c \in VaCallers, d \in VaCallers, e \in VaCallers :
        /\ ProcOf(c) # ProcOf(d)
        /\ va_th[c].op = "query" /\ va_th[c].pc = "result"
        /\ va_th[d].op = "query" /\ va_th[d].pc = "read"
        /\ Mutating(e) /\ va_th[e].pc = "mutex"

\* C22: whenever a VAW allocate, free or query that went for the locks returns
\* to its caller (normally, with the error of the buddy-tree call, or with the
\* error of a failed flock call), the process's mutex is free and its open
\* file description holds no lock on the file.
C22_LockReleaseOnEveryPath ==
    [][\A c \in VaCallers :
          (InsideLocks(c) /\ va_th'[c].pc = "idle") =>
              /\ ProcOf(c) \notin va_mutex'
              /\ va_flock'[ProcOf(c)] = LOCK_UN
              /\ (InBuddyCall(c) => va_th'[c].outcome = "ws_exp")]_vars

\* x is a multiple of 2^e, x is below 2^e, for the values x < 2^31 of the model
MultipleOfPow2(x, e) == IF e >= 31 THEN x = 0 ELSE x % 2^e = 0
BelowPow2(x, e) == IF e >= 31 THEN TRUE ELSE x < 2^e
\* a power of two between MIN_POOL and VA_SIZE
PoolSizeInRange(x) ==
    /\ is_power_of_two(x)
    /\ WS_MIN_SHM_POOL_SIZE_LOG2 <= Log2(x) /\ Log2(x) <= WS_SHM_POOL_VA_SIZE_LOG2
\* a multiple of MIN_POOL below VA_SIZE
PoolOffsetInRange(x) ==
    MultipleOfPow2(x, WS_MIN_SHM_POOL_SIZE_LOG2) /\ BelowPow2(x, WS_SHM_POOL_VA_SIZE_LOG2)

\* the step is the call of `op` by the thread c
VaCalls(c, op) == va_th[c].pc = "idle" /\ va_th'[c] # va_th[c] /\ va_th'[c].op = op

\* C24: VAW allocate goes on to the locks exactly for the powers of two between
\* MIN_POOL and VA_SIZE, VAW free exactly for the multiples of MIN_POOL below
\* VA_SIZE; every other call ends with InvalidArgument, having taken no lock and
\* changed no cell.
C24_ArgumentValidation ==
    [][\A c \in VaCallers :
          /\ VaCalls(c, "allocate") =>
                (va_th'[c].pc = "mutex" <=> PoolSizeInRange(va_th'[c].arg))
          /\ VaCalls(c, "free") =>
                (va_th'[c].pc = "mutex" <=> PoolOffsetInRange(va_th'[c].arg))
          /\ ((VaCalls(c, "allocate") \/ VaCalls(c, "free")) /\ va_th'[c].pc = "idle") =>
                /\ va_th'[c].outcome = "InvalidArgument"
                /\ UNCHANGED <<va_tree, va_mutex, va_flock>>]_vars

\* ---------------------------------------------------------------------------
\* ShmPool: the groups on the ramdisk, the per-process group name and VAW
\* singleton, and the pools. A process here is one thread calling the static
\* functions of ShmPool one after the other; create_group is run step by step,
\* a call of VAW::allocate, VAW::free or VAW::query is one step (it runs under
\* the file lock).
\* ---------------------------------------------------------------------------

SpProcs == {"A", "B"}
SpGroups == {"g", "h"}
\* the capacities a caller passes to ShmPool::create, the offsets to VAW::query
SpCapacities == {1, 2}
SpQueryOffsets == {0}
MaxPools == 2
\* the offsets a pool can have, and how many pools can be alive at one offset
SpPoolOffsets == {k * va_unit_size : k \in 0..(va_capacity \div va_unit_size - 1)}
MaxNth == MaxPools * Cardinality(SpProcs)

\* BuddySystem::calc_tree_size(capacity, unit_size), on the exponents of the two
calc_tree_size(cap_exp, u_exp) == (2^(cap_exp - u_exp) * 8) * 2

NoFile == [size |-> -1, tree |-> <<>>]
NoGroup == ""
Fresh == [group |-> NoGroup, singleton |-> NoGroup, pc |-> "idle", arg |-> NoGroup,
          hist |-> "none"]

\* no group exists, no process has called anything
InitShmPool ==
    /\ fs_dir = {}
    /\ fs_file = [g \in SpGroups |-> NoFile]
    /\ sp_proc = [p \in SpProcs |-> Fresh]
    /\ sp_pools = {}
    /\ sp_result = [op |-> "none"]
    /\ tm_log = <<>> /\ tm_position = 0 /\ tm_pc = <<>> /\ tm_file = <<>>
    /\ tm_since = <<>> /\ tm_clock = 0 /\ tm_cleared_at = 0
    /\ va_tree = <<>> /\ va_mutex = {} /\ va_flock = {} /\ va_th = <<>> /\ va_live = {}
    /\ buddies = <<>> /\ live = {} /\ bt_result = [op |-> "none"] /\ misused = FALSE
    /\ segments = {} /\ cr_attr = [op |-> "none"] /\ cr_result = "none"
    /\ cr_header = [created |-> FALSE]
    /\ attr = Ring(2, 2, FALSE, FALSE)
    /\ head = U32(0, 0) /\ tail = U32(0, 0)
    /\ producer_lock = FALSE /\ consumer_lock = FALSE
    /\ slots = [i \in 0..1 |-> <<0, 0>>]
    /\ now = 0
    /\ th = [t \in Threads |-> Idle]
    /\ nproduce = 0 /\ nconsume = 0
    /\ produced = <<>> /\ consumed = <<>>

Result(p, op, arg, outcome) ==
    [proc |-> p, op |-> op, arg |-> arg, outcome |-> outcome, ret |-> 0, second |-> 0]

\* fs::exists(group_dir), and what makes fs::create_directory(group_dir) return false
GroupDirExists_Never(g) == FALSE
GroupDirExists(g) == g \in fs_dir

\* ShmPoolImpl::create_group(group), step 1: the test of the directory
create_group(p, g) ==
    /\ sp_proc[p].pc = "idle"
    /\ IF GroupDirExists(g)
         THEN /\ sp_result' = Result(p, "create_group", g, "AlreadyExists")
              /\ UNCHANGED sp_proc
         ELSE /\ sp_proc' = [sp_proc EXCEPT ![p].pc = "checked", ![p].arg = g]
              /\ sp_result' = Result(p, "create_group", g, "running")
    /\ UNCHANGED <<fs_dir, fs_file, sp_pools, rbvars, crvars, btvars, vavars, tmvars>>

\* step 2: fs::create_directory, which returns false when the directory is there
create_group_directory(p) ==
    /\ sp_proc[p].pc = "checked"
    /\ IF GroupDirExists(sp_proc[p].arg)
         THEN /\ sp_proc' = [sp_proc EXCEPT ![p].pc = "idle"]
              /\ sp_result' = Result(p, "create_group", sp_proc[p].arg, "InvalidArgument")
              /\ UNCHANGED fs_dir
         ELSE /\ fs_dir' = fs_dir \cup {sp_proc[p].arg}
              /\ sp_proc' = [sp_proc EXCEPT ![p].pc = "dir"]
              /\ sp_result' = Result(p, "create_group", sp_proc[p].arg, "running")
    /\ UNCHANGED <<fs_file, sp_pools, rbvars, crvars, btvars, vavars, tmvars>>

\* step 3, VAW::create: std::ofstream bfile(path, std::ios::out) makes the
\* file, or empties the one that is there
VAW_create_file(p) ==
    /\ sp_proc[p].pc = "dir"
    /\ fs_file' = [fs_file EXCEPT ![sp_proc[p].arg] = [size |-> 0, tree |-> <<>>]]
    /\ sp_proc' = [sp_proc EXCEPT ![p].pc = "file"]
    /\ UNCHANGED <<fs_dir, sp_pools, sp_result, rbvars, crvars, btvars, vavars, tmvars>>

\* VAW::create: std::filesystem::resize_file(path, tree_size) fills with zeros
VAW_create_resize(p) ==
    /\ sp_proc[p].pc = "file"
    /\ fs_file' = [fs_file EXCEPT ![sp_proc[p].arg] =
                      [size |-> calc_tree_size(WS_SHM_POOL_VA_SIZE_LOG2,
                                               WS_MIN_SHM_POOL_SIZE_LOG2),
                       tree |-> [n \in VaNodes |-> 0]]]
    /\ sp_proc' = [sp_proc EXCEPT ![p].pc = "sized"]
    /\ UNCHANGED <<fs_dir, sp_pools, sp_result, rbvars, crvars, btvars, vavars, tmvars>>

\* the loader of VAW::VAW finds the file of the group and finds it long enough
Loadable(g) == fs_file[g].size >= calc_tree_size(va_capacity_exp, va_unit_exp)

\* VAW::create: VAW init_vaw(group, true) opens and maps the file and the
\* BuddySystem constructor writes buddies_ptr[1] = BUDDY_STATE_IDLE, with no
\* flock; then create_group sets ShmPoolImpl::group.
VAW_create_init(p) ==
    /\ sp_proc[p].pc = "sized"
    /\ IF Loadable(sp_proc[p].arg)
         THEN /\ fs_file' = [fs_file EXCEPT ![sp_proc[p].arg].tree[1] = BUDDY_STATE_IDLE]
              /\ sp_proc' = [sp_proc EXCEPT ![p].pc = "idle", ![p].group = sp_proc[p].arg]
              /\ sp_result' = Result(p, "create_group", sp_proc[p].arg, "ok")
         ELSE /\ sp_proc' = [sp_proc EXCEPT ![p].pc = "idle"]
              /\ sp_result' = Result(p, "create_group", sp_proc[p].arg, "SystemError")
              /\ UNCHANGED fs_file
    /\ UNCHANGED <<fs_dir, sp_pools, rbvars, crvars, btvars, vavars, tmvars>>

\* the pools of the process p, the pools of the group g
PoolsOf(p) == {q \in sp_pools : q.proc = p}
PoolsIn(g) == {q \in sp_pools : q.group = g}
\* `if (ShmPoolImpl::group.empty())`
GroupEmpty_Always(p) == TRUE
GroupEmpty(p) == sp_proc[p].group = NoGroup

\* ShmPoolImpl::remove_group(group): VAW::remove deletes the file, remove_all
\* the directory. The caller guarantees that nobody uses the group: no process
\* is attached to it, holds a pool of it or is creating it.
remove_group(p, g) ==
    /\ sp_proc[p].pc = "idle"
    /\ \A q \in SpProcs : sp_proc[q].singleton # g /\ (sp_proc[q].pc = "idle" \/ sp_proc[q].arg # g)
    /\ PoolsIn(g) = {}
    /\ fs_file' = [fs_file EXCEPT ![g] = NoFile]
    /\ fs_dir' = fs_dir \ {g}
    /\ sp_result' = Result(p, "remove_group", g, "ok")
    /\ UNCHANGED <<sp_proc, sp_pools, rbvars, crvars, btvars, vavars, tmvars>>

\* ShmPoolImpl::initialize(group), under init_lock: with no group name set, the
\* name is set and VAW::initialize builds VAW(group, false), whose loader opens
\* the file, tests its size and maps it; the singleton is assigned when the
\* constructor returns. With a group name set, the call throws.
initialize(p, g) ==
    /\ sp_proc[p].pc = "idle"
    /\ IF GroupEmpty(p)
         THEN IF fs_file[g].size = -1
              THEN /\ sp_proc' = [sp_proc EXCEPT ![p].group = g]
                   /\ sp_result' = Result(p, "initialize", g, "SystemError")
              ELSE IF ~Loadable(g)
              THEN /\ sp_proc' = [sp_proc EXCEPT ![p].group = g]
                   /\ sp_result' = Result(p, "initialize", g, "InvalidArgument")
              ELSE /\ sp_proc' = [sp_proc EXCEPT ![p].group = g, ![p].singleton = g,
                                                 ![p].hist = "initialized"]
                   /\ sp_result' = Result(p, "initialize", g, "ok")
         ELSE /\ sp_result' = Result(p, "initialize", g, "Reinitialization")
              /\ UNCHANGED sp_proc
    /\ UNCHANGED <<fs_dir, fs_file, sp_pools, rbvars, crvars, btvars, vavars, tmvars>>

\* VAW::uninitialize: `if (singleton) singleton.reset()`
ResetSingleton_Keep(p) == sp_proc[p].singleton
ResetSingleton(p) == NoGroup

\* ShmPoolImpl::uninitialize(): VAW::uninitialize(), and nothing else
uninitialize(p) ==
    /\ sp_proc[p].pc = "idle"
    /\ sp_proc' = [sp_proc EXCEPT ![p].singleton = ResetSingleton(p),
                                   ![p].hist = IF sp_proc[p].singleton # NoGroup
                                               THEN "uninitialized"
                                               ELSE sp_proc[p].hist]
    /\ sp_result' = Result(p, "uninitialize", NoGroup, "ok")
    /\ UNCHANGED <<fs_dir, fs_file, sp_pools, rbvars, crvars, btvars, vavars, tmvars>>

\* VAW::get()
VAW_get(p) ==
    /\ sp_proc[p].pc = "idle"
    /\ sp_result' = IF sp_proc[p].singleton # NoGroup
                    THEN [Result(p, "get", NoGroup, "ok") EXCEPT !.arg = sp_proc[p].singleton]
                    ELSE Result(p, "get", NoGroup, "NotInitialized")
    /\ UNCHANGED <<fs_dir, fs_file, sp_proc, sp_pools, rbvars, crvars, btvars, vavars, tmvars>>

\* VAW::allocate(pool_size) as one step on the cells t: <<outcome, offset, cells>>
VAW_allocate(t, pool_size) ==
    IF ~is_power_of_two(pool_size) \/ pool_size > va_capacity \/ pool_size < va_unit_size
    THEN <<"InvalidArgument", 0, t>>
    ELSE LET got == va_buddies_allocate(t, pool_size)
         IN  IF got[1] = "ok" THEN got ELSE <<Rethrown(got[1]), 0, got[3]>>

\* VAW::free(pool_offset) as one step on the cells t: the pairs <<outcome, cells>>
VAW_free(t, pool_offset) ==
    IF pool_offset % va_unit_size # 0 \/ pool_offset > va_capacity
    THEN {<<"InvalidArgument", t>>}
    ELSE { IF end[1] = "ok" THEN end ELSE <<Rethrown(end[1]), end[2]>> :
             end \in va_buddies_free(t, pool_offset) }

\* the pools alive at one offset of one group
PoolsAt(g, offset) == Cardinality({q \in sp_pools : q.group = g /\ q.offset = offset})

\* ShmPoolImpl::create(capacity): new ShmPoolImpl(capacity), whose initialisers
\* run VAW::get()->allocate(cap) and whose body runs register_arena(); when
\* mallctl fails the constructor throws and the range stays allocated.
ShmPool_create(p, cap) ==
    /\ sp_proc[p].pc = "idle"
    /\ Cardinality(PoolsOf(p)) < MaxPools
    /\ IF sp_proc[p].singleton = NoGroup
         THEN /\ sp_result' = Result(p, "create", cap, "NotInitialized")
              /\ UNCHANGED <<fs_file, sp_pools>>
         ELSE LET g == sp_proc[p].singleton
                  got == VAW_allocate(fs_file[g].tree, cap)
              IN  /\ fs_file' = [fs_file EXCEPT ![g].tree = got[3]]
                  /\ IF got[1] # "ok"
                       THEN /\ sp_result' = Result(p, "create", cap, got[1])
                            /\ UNCHANGED sp_pools
                       ELSE \E arena_created \in BOOLEAN :
                              IF arena_created
                              THEN /\ sp_pools' = sp_pools \cup
                                          {[proc |-> p, group |-> g, offset |-> got[2],
                                            capacity |-> cap,
                                            nth |-> PoolsAt(g, got[2]) + 1]}
                                   /\ sp_result' = [Result(p, "create", cap, "ok")
                                                       EXCEPT !.ret = got[2]]
                              ELSE /\ sp_result' = Result(p, "create", cap, "SystemError")
                                   /\ UNCHANGED sp_pools
    /\ UNCHANGED <<fs_dir, sp_proc, rbvars, crvars, btvars, vavars, tmvars>>

\* the capacities of MIN_POOL and more are 2^32 and above: they are given by
\* their exponents, MIN_POOL and VA_SIZE themselves
SpCapacityExps == {WS_MIN_SHM_POOL_SIZE_LOG2, WS_SHM_POOL_VA_SIZE_LOG2}

\* VAW::allocate(pool_size) for pool_size = 2^e: a power of two, compared
\* with the capacity and the unit size of the tree
VAW_allocate_pow2(t, e) ==
    IF e > va_capacity_exp \/ e < va_unit_exp
    THEN <<"InvalidArgument", 0, t>>
    ELSE LET got == va_buddies_allocate(t, 2^e)
         IN  IF got[1] = "ok" THEN got ELSE <<Rethrown(got[1]), 0, got[3]>>

\* ShmPool::create(capacity) for capacity = 2^cap_exp
ShmPool_create_pow2(p, cap_exp) ==
    /\ sp_proc[p].pc = "idle"
    /\ Cardinality(PoolsOf(p)) < MaxPools
    /\ IF sp_proc[p].singleton = NoGroup
         THEN /\ sp_result' = Result(p, "create_pow2", cap_exp, "NotInitialized")
              /\ UNCHANGED <<fs_file, sp_pools>>
         ELSE LET g == sp_proc[p].singleton
                  got == VAW_allocate_pow2(fs_file[g].tree, cap_exp)
              IN  /\ fs_file' = [fs_file EXCEPT ![g].tree = got[3]]
                  /\ IF got[1] # "ok"
                       THEN /\ sp_result' = Result(p, "create_pow2", cap_exp, got[1])
                            /\ UNCHANGED sp_pools
                       ELSE \E arena_created \in BOOLEAN :
                              IF arena_created
                              THEN /\ sp_pools' = sp_pools \cup
                                          {[proc |-> p, group |-> g, offset |-> got[2],
                                            capacity |-> 2^cap_exp,
                                            nth |-> PoolsAt(g, got[2]) + 1]}
                                   /\ sp_result' = [Result(p, "create_pow2", cap_exp, "ok")
                                                       EXCEPT !.ret = got[2]]
                              ELSE /\ sp_result' = Result(p, "create_pow2", cap_exp, "SystemError")
                                   /\ UNCHANGED sp_pools
    /\ UNCHANGED <<fs_dir, sp_proc, rbvars, crvars, btvars, vavars, tmvars>>

\* ShmPoolImpl::~ShmPoolImpl(): unregister_arena(), VAW::get()->free(offset).
\* The pool is gone whatever free does. A pool is destroyed while its process
\* is attached (VAW::get() throws otherwise, in a destructor).
ShmPool_destroy(p, offset, nth) ==
    /\ sp_proc[p].pc = "idle"
    /\ sp_proc[p].singleton # NoGroup
    /\ \E pool \in PoolsOf(p) :
         /\ pool.offset = offset /\ pool.nth = nth
         /\ LET g == sp_proc[p].singleton
            IN  \E end \in VAW_free(fs_file[g].tree, pool.offset) :
                  /\ fs_file' = [fs_file EXCEPT ![g].tree = end[2]]
                  /\ sp_result' = Result(p, "destroy", pool.offset, end[1])
         /\ sp_pools' = sp_pools \ {pool}
    /\ UNCHANGED <<fs_dir, sp_proc, rbvars, crvars, btvars, vavars, tmvars>>

\* VAW::get()->query(va_offset)
VAW_query(p, va_offset) ==
    /\ sp_proc[p].pc = "idle"
    /\ IF sp_proc[p].singleton = NoGroup
         THEN sp_result' = Result(p, "query", va_offset, "NotInitialized")
         ELSE LET got == va_buddies_query(fs_file[sp_proc[p].singleton].tree, va_offset)
              IN  sp_result' = IF got[1] = "ok"
                               THEN [Result(p, "query", va_offset, "ok")
                                        EXCEPT !.ret = got[2], !.second = got[3]]
                               ELSE Result(p, "query", va_offset, Rethrown(got[1]))
    /\ UNCHANGED <<fs_dir, fs_file, sp_proc, sp_pools, rbvars, crvars, btvars, vavars, tmvars>>

NextShmPool ==
    \/ \E p \in SpProcs, g \in SpGroups : create_group(p, g)
    \/ \E p \in SpProcs : create_group_directory(p)
    \/ \E p \in SpProcs : VAW_create_file(p)
    \/ \E p \in SpProcs : VAW_create_resize(p)
    \/ \E p \in SpProcs : VAW_create_init(p)
    \/ \E p \in SpProcs, g \in SpGroups : remove_group(p, g)
    \/ \E p \in SpProcs, g \in SpGroups : initialize(p, g)
    \/ \E p \in SpProcs : uninitialize(p)
    \/ \E p \in SpProcs : VAW_get(p)
    \/ \E p \in SpProcs, cap \in SpCapacities : ShmPool_create(p, cap)
    \/ \E p \in SpProcs, cap_exp \in SpCapacityExps : ShmPool_create_pow2(p, cap_exp)
    \/ \E p \in SpProcs, offset \in SpPoolOffsets, nth \in 1..MaxNth :
          ShmPool_destroy(p, offset, nth)
    \/ \E p \in SpProcs, va_offset \in SpQueryOffsets : VAW_query(p, va_offset)

SpecShmPool == InitShmPool /\ [][NextShmPool]_vars

\* the cells of the group's file record the pool: a query of its offset
\* answers with its offset and its capacity
Recorded(pool) ==
    /\ fs_file[pool.group].size # -1
    /\ va_buddies_query(fs_file[pool.group].tree, pool.offset) =
          <<"ok", pool.offset, pool.capacity>>

\* C23: the cells of a group's buddies file are read and written under the file
\* lock only, the root-cell initialisation of create(group) included; so no
\* write takes away what an allocate of an attached process has written: every
\* pool alive is recorded in the file of its group.
C23_TreeUpdatesNotOverwritten == \A pool \in sp_pools : Recorded(pool)

\* the step is a call of `op` by the process p that ends in this step
SpCalls(p, op) == sp_result' # sp_result /\ sp_result'.proc = p /\ sp_result'.op = op

\* C25: when a process that was attached to a group and has called uninitialize
\* calls initialize on the same group again, with no remove_group in between
\* (it still has pools there), it is attached again, the file is not touched,
\* and every pool of the group is still recorded in it.
C25_PersistenceAcrossRestart ==
    [][\A p \in SpProcs :
          (/\ sp_proc[p].hist = "uninitialized"
           /\ PoolsOf(p) # {}
           /\ SpCalls(p, "initialize")
           /\ \A pool \in PoolsOf(p) : pool.group = sp_result'.arg) =>
              /\ sp_result'.outcome = "ok"
              /\ sp_proc'[p].singleton = sp_result'.arg
              /\ UNCHANGED <<fs_file, sp_pools>>
              /\ \A pool \in PoolsIn(sp_result'.arg) : Recorded(pool)]_vars

\* C26: an initialize(group) of a process that is attached (it has called
\* initialize and no uninitialize since) throws the reinitialization error and
\* changes neither the singleton nor the group name of the process.
C26_ReinitializationRejected ==
    [][\A p \in SpProcs :
          (sp_proc[p].hist = "initialized" /\ SpCalls(p, "initialize")) =>
              /\ sp_result'.outcome = "Reinitialization"
              /\ sp_proc'[p] = sp_proc[p]]_vars

\* a process attached to one group has called initialize with the name of
\* another group that exists, and was turned down
C26_Witness ==
    \E p \in SpProcs :
        /\ sp_result.op = "initialize" /\ sp_result.proc = p
        /\ sp_result.outcome = "Reinitialization"
        /\ sp_proc[p].hist = "initialized"
        /\ sp_proc[p].singleton # NoGroup
        /\ sp_result.arg # sp_proc[p].singleton
        /\ Loadable(sp_result.arg)

\* C27: VAW::get() returns the singleton, the VAW of the group the process
\* attached to, exactly when the last of the process's successful initialize
\* and uninitialize calls is an initialize; otherwise it throws.
C27_GetReturnsSingleton ==
    [][\A p \in SpProcs :
          SpCalls(p, "get") =>
              IF sp_proc[p].hist = "initialized"
              THEN /\ sp_result'.outcome = "ok"
                   /\ sp_result'.arg # NoGroup /\ sp_result'.arg = sp_proc[p].singleton
              ELSE sp_result'.outcome = "NotInitialized"]_vars

\* get() has thrown in a process that was attached and has called uninitialize
C27_Witness ==
    \E p \in SpProcs :
        /\ sp_result.op = "get" /\ sp_result.proc = p
        /\ sp_result.outcome = "NotInitialized"
        /\ sp_proc[p].hist = "uninitialized"

\* C28: a create_group on a group whose directory exists ends with the
\* already-exists error (with the create-directory error if the directory
\* appeared after the test) and changes neither the directories nor a file;
\* create_group goes on only when the directory does not exist; and the file of
\* a group is emptied only when there was none or an empty one.
C28_GroupCreatedOnce ==
    [][/\ \A p \in SpProcs :
            SpCalls(p, "create_group") =>
                /\ (sp_proc[p].pc = "idle" /\ sp_result'.arg \in fs_dir) =>
                      /\ sp_result'.outcome = "AlreadyExists"
                      /\ UNCHANGED <<fs_dir, fs_file, sp_proc>>
                /\ (sp_proc[p].pc = "checked" /\ sp_result'.arg \in fs_dir) =>
                      /\ sp_result'.outcome = "InvalidArgument"
                      /\ UNCHANGED <<fs_dir, fs_file>>
                /\ (sp_proc[p].pc \in {"idle", "checked"}
                    /\ sp_result'.outcome = "running") => sp_result'.arg \notin fs_dir
       /\ \A g \in SpGroups :
            (fs_file'[g] # fs_file[g] /\ fs_file'[g].size = 0) => fs_file[g].size \in {-1, 0}]_vars

\* create_group has been turned down on a group in which a pool is alive and
\* recorded in the file
C28_Witness ==
    /\ sp_result.op = "create_group"
    /\ sp_result.outcome = "AlreadyExists"
    /\ \E pool \in PoolsIn(sp_result.arg) : Recorded(pool)

\* C29: a process that has created group g and has not attached to any group
\* since attaches to g with initialize(g): the call succeeds and installs the
\* singleton of g.
C29_LessorStartUp ==
    [][\A p \in SpProcs :
          (/\ SpCalls(p, "initialize")
           /\ sp_proc[p].hist = "none"
           /\ sp_proc[p].singleton = NoGroup
           /\ sp_proc[p].group = sp_result'.arg
           /\ Loadable(sp_result'.arg)) =>
              /\ sp_result'.outcome = "ok"
              /\ sp_proc'[p].singleton = sp_result'.arg]_vars

\* ---- addresses of pools ----
\* WS_SHM_POOL_VA_START is 2^45. A 64-bit address is kept as two limbs,
\* hi * 2^30 + lo with 0 <= lo < 2^30.
WS_SHM_POOL_VA_START_LOG2 == 45
Limb == 2^30
\* the address 2^e, for e >= 30
AddrPow2(e) == [hi |-> 2^(e - 30), lo |-> 0]
\* a + n for an n < 2^31
AddrPlus(a, n) == [hi |-> a.hi + (a.lo + n) \div Limb, lo |-> (a.lo + n) % Limb]
\* a + b of two addresses
AddrSum(a, b) == [hi |-> a.hi + b.hi + (a.lo + b.lo) \div Limb, lo |-> (a.lo + b.lo) % Limb]
AddrLeq(a, b) == a.hi < b.hi \/ (a.hi = b.hi /\ a.lo <= b.lo)

\* ShmPoolImpl::get_capacity, get_offset, get_vaddr
get_capacity(pool) == pool.capacity
get_offset(pool) == pool.offset
get_vaddr(pool) == AddrPlus(AddrPow2(WS_SHM_POOL_VA_START_LOG2), pool.offset)

\* the first address after the window, VA_START + VA_SIZE
WindowEnd == AddrSum(AddrPow2(WS_SHM_POOL_VA_START_LOG2), AddrPow2(WS_SHM_POOL_VA_SIZE_LOG2))

\* C30: every pool alive has an offset that is a multiple of its capacity and
\* an address range [vaddr, vaddr + capacity), vaddr = VA_START + offset, that
\* lies in the window [VA_START, VA_START + VA_SIZE); and the ranges of two
\* pools of one group, of any processes, do not overlap.
C30_PoolAddressRanges ==
    /\ \A pool \in sp_pools :
         /\ get_offset(pool) % get_capacity(pool) = 0
         /\ AddrLeq(AddrPow2(WS_SHM_POOL_VA_START_LOG2), get_vaddr(pool))
         /\ AddrLeq(AddrPlus(get_vaddr(pool), get_capacity(pool)), WindowEnd)
    /\ \A a, b \in sp_pools :
         (a # b /\ a.group = b.group) =>
            \/ AddrLeq(AddrPlus(get_vaddr(a), get_capacity(a)), get_vaddr(b))
            \/ AddrLeq(AddrPlus(get_vaddr(b), get_capacity(b)), get_vaddr(a))

\* the step is the destruction of the pool by its process
Destroys(pool) ==
    /\ pool \in sp_pools /\ pool \notin sp_pools'
    /\ sp_result' # sp_result /\ sp_result'.op = "destroy" /\ sp_result'.proc = pool.proc

\* C31: a pool can be created for every capacity that is a power of two
\* between MIN_POOL and VA_SIZE (the window does not turn such a capacity
\* down while the whole tree is free), and the destruction of a pool recorded
\* in the tree frees its range: the free succeeds, the cells of the range are
\* as before the creation and an allocate of the capacity gets the range again.
C31_DestroyReleasesRange ==
    [][/\ \A p \in SpProcs :
            (/\ SpCalls(p, "create_pow2")
             /\ sp_proc[p].singleton # NoGroup
             /\ fs_file[sp_proc[p].singleton].tree[1] = BUDDY_STATE_IDLE) =>
                sp_result'.outcome \in {"ok", "SystemError"}
       /\ \A pool \in sp_pools :
            (Destroys(pool) /\ Recorded(pool) /\ PoolsAt(pool.group, pool.offset) = 1) =>
                /\ sp_result'.outcome = "ok"
                /\ va_buddies_query(fs_file'[pool.group].tree, pool.offset)[1] # "ok"
                /\ LET again == VAW_allocate(fs_file'[pool.group].tree, pool.capacity)
                   IN  again[1] = "ok" /\ again[2] = pool.offset]_vars

----------------------------------------------------------------------------
\* ---- timing: Timestamp, the in-memory log of a process ----

\* the capacity of the log in entries (WS_TIMING_DEFAULT_CAPACITY in the
\* code), the number of punches of a behaviour, the threads of the process and
\* the tags they log
TmCapacity == 2
MaxPunches == 5
TmThreads == {"t1", "t2"}
TmTags == {1000, 1001}

\* an entry of the log: the tag and the time of the punch (the user data
\* travel with the tag)
TmEntry(tag, tsns) == [tag |-> tag, tsns |-> tsns]

\* Timestamp::Timestamp: position 0, the log zeroed
InitTiming ==
    /\ tm_log = [i \in 0..(TmCapacity - 1) |-> TmEntry(0, 0)]
    /\ tm_position = 0
    /\ tm_pc = [t \in TmThreads |-> "idle"]
    /\ tm_file = <<>>
    /\ tm_since = <<>>
    /\ tm_clock = 0
    /\ tm_cleared_at = 0
    /\ fs_dir = {} /\ fs_file = <<>> /\ sp_proc = <<>> /\ sp_pools = {}
    /\ sp_result = [op |-> "none"]
    /\ va_tree = <<>> /\ va_mutex = {} /\ va_flock = {} /\ va_th = <<>> /\ va_live = {}
    /\ buddies = <<>> /\ live = {} /\ bt_result = [op |-> "none"] /\ misused = FALSE
    /\ segments = {} /\ cr_attr = [op |-> "none"] /\ cr_result = "none"
    /\ cr_header = [created |-> FALSE]
    /\ attr = Ring(2, 2, FALSE, FALSE)
    /\ head = U32(0, 0) /\ tail = U32(0, 0)
    /\ producer_lock = FALSE /\ consumer_lock = FALSE
    /\ slots = [i \in 0..1 |-> <<0, 0>>]
    /\ now = 0
    /\ th = [t \in Threads |-> Idle]
    /\ nproduce = 0 /\ nconsume = 0
    /\ produced = <<>> /\ consumed = <<>>

\* ws_timing_punch -> Timestamp::instance_log: under the spinlock, the entry
\* goes to position % capacity and position grows by one
ws_timing_punch(t, tag) ==
    /\ tm_pc[t] = "idle"
    /\ tm_clock < MaxPunches
    /\ tm_clock' = tm_clock + 1
    /\ tm_log' = [tm_log EXCEPT ![tm_position % TmCapacity] = TmEntry(tag, tm_clock')]
    /\ tm_position' = tm_position + 1
    /\ tm_since' = Append(tm_since, TmEntry(tag, tm_clock'))
    /\ UNCHANGED <<tm_pc, tm_file, tm_cleared_at, rbvars, crvars, btvars, vavars, spvars>>

\* size_t start_position = (position>capacity? (position%capacity):0)
start_position_Zero(position, cap) == 0
start_position(position, cap) ==
    IF position > cap THEN position % cap ELSE 0

\* the lines instance_save writes: min(position, capacity) entries from
\* start_position on, around the ring
SavedEntries(log, position, cap) ==
    [i \in 1..Min(position, cap) |->
        log[((i - 1) + start_position(position, cap)) % cap]]

\* ws_timing_save -> Timestamp::instance_save(filename, true), first part:
\* under the spinlock the entries are written to the file
ws_timing_save(t) ==
    /\ tm_pc[t] = "idle"
    /\ tm_file' = SavedEntries(tm_log, tm_position, TmCapacity)
    /\ tm_pc' = [tm_pc EXCEPT ![t] = "saved"]
    /\ UNCHANGED <<tm_log, tm_position, tm_since, tm_clock, tm_cleared_at,
                   rbvars, crvars, btvars, vavars, spvars>>

\* Timestamp::instance_clear: under the spinlock, position = 0
instance_clear ==
    /\ tm_position' = 0
    /\ tm_since' = <<>>
    /\ tm_cleared_at' = tm_clock
    /\ UNCHANGED <<tm_log, tm_file, tm_clock>>

\* instance_save, second part: the spinlock has been released, `clear` is
\* true and the log is cleared
instance_save_clear(t) ==
    /\ tm_pc[t] = "saved"
    /\ instance_clear
    /\ tm_pc' = [tm_pc EXCEPT ![t] = "idle"]
    /\ UNCHANGED <<rbvars, crvars, btvars, vavars, spvars>>

\* ws_timing_clear
ws_timing_clear(t) ==
    /\ tm_pc[t] = "idle"
    /\ instance_clear
    /\ UNCHANGED <<tm_pc, rbvars, crvars, btvars, vavars, spvars>>

NextTiming ==
    \/ \E t \in TmThreads, tag \in TmTags : ws_timing_punch(t, tag)
    \/ \E t \in TmThreads : ws_timing_save(t)
    \/ \E t \in TmThreads : instance_save_clear(t)
    \/ \E t \in TmThreads : ws_timing_clear(t)

SpecTiming == InitTiming /\ [][NextTiming]_vars

\* the last n elements of the sequence s
LastN(s, n) == SubSeq(s, Len(s) - n + 1, Len(s))

\* C32: a save writes exactly the most recent min(k, capacity) of the k
\* entries punched since the last clear, in the order they were logged, and
\* none of them was punched before the last clear (a save clears, too).
C32_TimingLogRing ==
    [][\A t \in TmThreads :
          (tm_pc[t] = "idle" /\ tm_pc'[t] = "saved") =>
              /\ tm_position = Len(tm_since)
              /\ tm_file' = LastN(tm_since, Min(Len(tm_since), TmCapacity))
              /\ \A i \in 1..Len(tm_file') : tm_file'[i].tsns > tm_cleared_at]_vars

\* a save after a clear has written a full log of which the earliest entry
\* punched since the clear was overwritten
C32_Witness ==
    /\ \E t \in TmThreads : tm_pc[t] = "saved"
    /\ tm_cleared_at > 0
    /\ Len(tm_since) > TmCapacity
    /\ Len(tm_file) = TmCapacity
    /\ tm_file[1] = tm_since[Len(tm_since) - TmCapacity + 1]

----------------------------------------------------------------------------
\* the ring of a header, as RingBuffer::size() and RingBuffer::empty() see it
HeaderSize(h) == Mod32(Sub32(h.tail, h.head), h.attribute.capacity)
HeaderEmpty(h) == HeaderSize(h) = 0

----------------------------------------------------------------------------
\* the step is one of the thread t
StepOf(t) == th'[t] # th[t]
\* the slots other than i keep their bytes
OnlySlot(i) == \A j \in DOMAIN slots : j # i => slots'[j] = slots[j]

\* what the steps of a produce and of a consume call write
ProduceFrame(p) ==
    /\ head' = head /\ consumer_lock' = consumer_lock /\ attr' = attr
    /\ slots' # slots => (th[p].pc = "copy" /\ OnlySlot(RB_TAIL_BUFFER))
    /\ tail' # tail => (th[p].pc = "inc" /\ tail' = Inc32(tail))
ConsumeFrame(c) ==
    /\ tail' = tail /\ producer_lock' = producer_lock /\ attr' = attr
    /\ slots' = slots
    /\ head' # head => (th[c].pc = "inc" /\ head' = Inc32(head))

\* C34: a produce call writes the slot at tail mod capacity and then moves
\* that tail on by one, touching neither head nor consumer_lock; a consume call
\* reads the slot at head mod capacity and then moves that head on by one,
\* touching neither tail nor producer_lock nor a slot; a cursor only moves
\* forward by one; and each cursor has one writer at a time: between the copy
\* of a call and its increment no other call moves the cursor.
C34_SingleWriterCursors ==
    [][/\ \A p \in Producers : StepOf(p) => ProduceFrame(p)
       /\ \A c \in Consumers : StepOf(c) => ConsumeFrame(c)
       /\ tail' \in {tail, Inc32(tail)} /\ head' \in {head, Inc32(head)}
       /\ \A p \in Producers : (th[p].pc = "inc" /\ ~StepOf(p)) => tail' = tail
       /\ \A c \in Consumers : (th[c].pc = "inc" /\ ~StepOf(c)) => head' = head]_vars

----------------------------------------------------------------------------
\* the entries produced and not yet consumed
Outstanding == Len(produced) - Len(consumed)
\* the cursor has gone round from 2^32 - 1 to 0 (it started in the upper half)
Wrapped(cursor) == cursor.hi = 0

\* C35: with 32-bit cursors that overflow to 0, in a ring with one producer
\* and one consumer the size (tail - head) mod capacity is the number of
\* entries produced and not consumed, the full test holds exactly at
\* capacity - 1 entries and the empty test exactly at none, the slot after the
\* slot of a cursor is the slot of the cursor plus one, also from 2^32 - 1 to 0,
\* and the entries come out in the order they went in.
C35_CursorWrapAround ==
    /\ RB_BUFFER(Inc32(tail)) = (RB_BUFFER(tail) + 1) % RB_CAPACITY
    /\ RB_BUFFER(Inc32(head)) = (RB_BUFFER(head) + 1) % RB_CAPACITY
    /\ IsSPSC =>
          /\ RB_SIZE = Outstanding
          /\ RB_IS_FULL <=> (Outstanding = RB_CAPACITY - 1)
          /\ RB_IS_EMPTY <=> (Outstanding = 0)
          /\ Len(consumed) <= Len(produced)
          /\ \A i \in 1..Len(consumed) :
                \A j \in 1..Min(Len(consumed[i]), Len(produced[i])) :
                    consumed[i][j] = produced[i][j]

\* the tail has gone round to 0 and beyond while the head has not, and the
\* ring is full
C35_Witness ==
    /\ IsSPSC
    /\ Wrapped(tail) /\ tail.lo > 0 /\ ~Wrapped(head)
    /\ RB_IS_FULL

----------------------------------------------------------------------------
\* the slots that hold the entries produced and not yet consumed
OccupiedSlots == {(RB_HEAD_BUFFER + k) % RB_CAPACITY : k \in 0..(RB_SIZE - 1)}
\* the first n bytes of a slot or a buffer
Payload(bytes, n) == SubSeq(bytes, 1, n)

\* C36: in a ring with one producer and one consumer, the slot the producer
\* is about to write or has written and not yet published holds no entry that
\* waits to be consumed; when the producer advances tail the payload is in the
\* slot; and the consumer copies from the slot at head only when tail # head,
\* when that slot holds the whole payload of the oldest entry not yet consumed
\* and the producer is not writing it.
C36_SpscSlotSafety ==
    IsSPSC =>
        /\ \A p \in Producers :
              /\ th[p].pc = "copy" => (~RB_IS_FULL /\ RB_TAIL_BUFFER \notin OccupiedSlots)
              /\ th[p].pc = "inc" =>
                    /\ RB_TAIL_BUFFER \notin OccupiedSlots
                    /\ Payload(slots[RB_TAIL_BUFFER], th[p].size) = Payload(th[p].buf, th[p].size)
        /\ \A c \in Consumers :
              th[c].pc = "copy" =>
                    /\ tail # head /\ ~RB_IS_EMPTY
                    /\ Len(produced) > Len(consumed)
                    /\ LET entry == produced[Len(consumed) + 1]
                       IN  Payload(slots[RB_HEAD_BUFFER], Len(entry)) = entry
                    /\ \A p \in Producers :
                          th[p].pc \in {"copy", "inc"} => RB_TAIL_BUFFER # RB_HEAD_BUFFER

\* the producer is about to write a slot while the consumer is about to read
\* another one, in a ring that holds an entry
C36_Witness ==
    /\ IsSPSC
    /\ \E p \in Producers : th[p].pc = "copy"
    /\ \E c \in Consumers : th[c].pc = "copy"
    /\ RB_SIZE > 0

\* C37: a process that has attached and detached is in the state of a process
\* that never attached: its next initialize on a group whose file is there
\* is not rejected, it succeeds and installs the singleton.
C37_LifecycleRepeats ==
    [][\A p \in SpProcs :
          (/\ SpCalls(p, "initialize")
           /\ sp_proc[p].hist = "uninitialized"
           /\ Loadable(sp_result'.arg)) =>
              /\ sp_result'.outcome # "Reinitialization"
              /\ sp_result'.outcome = "ok"
              /\ sp_proc'[p].singleton = sp_result'.arg
              /\ sp_proc'[p].hist = "initialized"]_vars

----------------------------------------------------------------------------
\* C38: an allocate of the buddy tree that fails, with OutOfSpace because no
\* free block of the span exists or with InvalidArgument because the rounded
\* size exceeds the capacity, leaves every cell of the tree, and the
\* allocations handed out, as they were.
C38_FailedAllocateChangesNothing ==
    [][(/\ bt_result'.op = "allocate"
        /\ bt_result'.outcome \in {"OutOfSpace", "InvalidArgument"}) =>
            /\ buddies' = buddies
            /\ live' = live]_vars

\* an allocate has failed for want of space on a tree that has a split node
\* and an allocation in it
C38_Witness ==
    /\ bt_result.op = "allocate" /\ bt_result.outcome = "OutOfSpace"
    /\ \E n \in Nodes : buddies[n] = BUDDY_STATE_SPLT_HALFWAY
    /\ live # {}

----------------------------------------------------------------------------
\* C39: a ShmPool::create that does not return a pool leaves the buddies file
\* of the group as it was before the call, also when it fails after the range
\* was allocated in the window (the registration of the arena fails).
C39_FailedCreateReleasesRange ==
    [][\A p \in SpProcs :
          (SpCalls(p, "create") /\ sp_result'.outcome # "ok") =>
              /\ fs_file' = fs_file
              /\ sp_pools' = sp_pools]_vars

====
